---- MODULE Spec2Model ----
(***************************************************************************)
(* The plugin executor ring of tsp (ts::tsp::PluginExecutor): a ring of    *)
(* stages sharing one circular packet buffer under one global mutex.       *)
(* Every method of PluginExecutor that runs under the global mutex is one  *)
(* atomic action; waitWork is split at its condition-variable wait.        *)
(***************************************************************************)
EXTENDS Integers, Sequences, FiniteSets, TLC

\* Number of packet processor plugins between input and output.
NumPlugins == 1
\* Number of slots of the packet buffer (_buffer->count()).
BufCount == 2
\* Number of packets the input plugin can deliver before end of input.
MaxPackets == 3
\* Number of restart requests the supervisors issue.
MaxRestarts == 1
\* Number of restart requests of concurrent supervisors.
MaxRequests == 2
\* Number of supervisor threads that call restart().
NumSupervisors == 2
\* Bitrate monitor: --time-interval, the number of periods of the window.
WindowSize == 2
\* Bitrate monitor: number of packets the plugin receives in one period.
MaxPerPeriod == 2
\* Bitrate monitor: --min and --max, in bits per second.
MinBitrate == 1000
MaxBitrate == 2500
\* Bitrate monitor: number of bitrate computations that are recorded.
MaxComputations == 7
\* Bitrate monitor: time units. The clock counts nanoseconds; a second lasts
\* MicroSecPerSec microseconds, fewer than a real one to keep the products
\* of the bitrate formula small.
NanoSecPerMicroSec == 1000
MicroSecPerSec == 1000
NanoSecPerSec == NanoSecPerMicroSec * MicroSecPerSec
\* Size of a TS packet in bits.
PKT_SIZE_BITS == 1504
\* UID: width of the counter in bits (64 in the source), number of threads
\* that request UID's.
UidBits == 2
NumCallers == 2
\* LCN store: largest number of entries, "unspecified" original network id,
\* "not found" LCN, the value findLCN compares stored network ids with.
MaxEntries == 2
ONetUnspecified == 65535
LcnNotFound == 65535
ONetPossible == 4095

VARIABLES
    pkt_first,      \* _pkt_first of each stage
    pkt_cnt,        \* _pkt_cnt of each stage
    input_end,      \* _input_end of each stage
    tsp_aborting,   \* _tsp_aborting of each stage
    bitrate,        \* _bitrate of each stage
    tsp_timeout,    \* _tsp_timeout of each stage: Infinite or a finite delay
    pc,             \* position of each stage thread
    min_req,        \* min_pkt_cnt of the waitWork call in progress (clamped)
    ret,            \* output parameters of the last waitWork of each stage
    restart,        \* _restart of each stage
    restart_data,   \* _restart_data of each stage: 0 (null) or a record id
    rd,             \* the RestartData records created so far
    plugin,         \* the plugin of each stage: command arguments, started
    buf,            \* packet buffer content: packet number in each slot
    written,        \* number of packets written by the input plugin
    out,            \* packets sent by the output plugin, in order
    abort_calls,    \* stages on which setAbort() was called
    thread_at,      \* position of each thread in the code of the executor
    global_mutex,   \* owner of _global_mutex, 0 when free
    rd_mutex,       \* owner of the mutex of each RestartData record, 0 when free
    sup_rd,         \* rd of the restart() call of each supervisor, 0 before the call
    sup_target,     \* stage on which each supervisor calls restart()
    periods,        \* bitrate monitor: _periods, index 0 .. size - 1
    periods_index,  \* bitrate monitor: _periods_index
    labels_next,    \* bitrate monitor: _labels_next, as a set of label sets
    last_bitrate_status, \* bitrate monitor: _last_bitrate_status
    startup,        \* bitrate monitor: _startup
    periodic_command,    \* bitrate monitor: _periodic_command
    command_countdown,   \* bitrate monitor: _command_countdown
    computation,    \* bitrate monitor: what the last time check computed
    applied,        \* bitrate monitor: label sets set on the last packet
    computed,       \* bitrate monitor: status and alarm of the computations
    next_uid,       \* UID: _next_uid
    uid_mutex,      \* UID: owner of _mutex, Free if none
    uid_at,         \* UID: position of each calling thread in newUID
    uid_read,       \* UID: value of _next_uid each thread read in _next_uid++
    issued,         \* UID: the values that newUID returned, with the caller
    lcn_map,        \* LCN store: _lcn_map in iteration order
    found,          \* LCN store: last call of getLCN and its result
    ppr,            \* processPendingRestart of each stage: next statement, calls made
    report,         \* report sink of each plugin: TspReport or a restart record
    fault,          \* bitrate monitor: the undefined operations executed so far
    srv_list        \* LCN store: the list of service descriptions of the caller

vars == <<pkt_first, pkt_cnt, input_end, tsp_aborting, bitrate, tsp_timeout, pc,
          min_req, ret, restart, restart_data, rd, plugin, buf, written, out,
          abort_calls, thread_at, global_mutex, rd_mutex, sup_rd, sup_target,
          periods, periods_index, labels_next, last_bitrate_status, startup,
          periodic_command, command_countdown, computation, applied, computed,
          next_uid, uid_mutex, uid_at, uid_read, issued, lcn_map, found,
          ppr, report, fault, srv_list>>

ring   == <<pkt_first, pkt_cnt, input_end, tsp_aborting, bitrate>>
hist   == <<buf, written, out, abort_calls>>
rstate == <<restart, restart_data, rd, plugin>>
locks  == <<thread_at, global_mutex, rd_mutex, sup_rd, sup_target>>
\* What the methods of the executor ring, taken as atomic, do not follow.
monitor == <<periods, periods_index, labels_next, last_bitrate_status, startup,
             periodic_command, command_countdown, computation, applied>>
uid == <<next_uid, uid_mutex, uid_at, uid_read, issued>>
lcn_store == <<lcn_map, found>>
statements == <<ppr, report>>
others == <<fault, srv_list>>
aside  == <<locks, monitor, computed, uid, lcn_store, statements, others>>

----------------------------------------------------------------------------
\* The ring of executors.

pluginCount == NumPlugins + 2

Stages == 0 .. (pluginCount - 1)

INPUT == 0

OUTPUT == pluginCount - 1

PluginType(s) == IF s = INPUT THEN "INPUT" ELSE IF s = OUTPUT THEN "OUTPUT" ELSE "PROCESSOR"

ringNext(s) == (s + 1) % pluginCount

ringPrevious(s) == (s + pluginCount - 1) % pluginCount

Infinite == 0

Min(a, b) == IF a < b THEN a ELSE b

\* Slots of the circular buffer covered by cnt packets starting at first.
Slots(first, cnt) == {(first + i) % BufCount : i \in 0 .. (cnt - 1)}

\* Command line arguments of a plugin: those of the tsp command line, new
\* valid ones, some that analyze() rejects, some that getOptions() rejects.
InitialArgs == "initial"
NewArgs == {"new", "bad_syntax", "bad_options"}
\* UStringVector(): no arguments.
NoArgs == "none"

NoRet == [first |-> 0, cnt |-> 0, input_end |-> FALSE, aborted |-> FALSE, timeout |-> FALSE]

----------------------------------------------------------------------------
\* initBuffer: the input stage owns the whole buffer, the others own nothing.

InitBuffer(first, cnt, ie, ab, br) ==
    [first |-> first, cnt |-> cnt, input_end |-> ie, aborting |-> ab, bitrate |-> br]

InitialWindow(s) == IF s = INPUT THEN InitBuffer(0, BufCount, FALSE, FALSE, 0)
                                 ELSE InitBuffer(0, 0, FALSE, FALSE, 0)

\* The threads: the thread of each stage and the supervisors. A mutex is
\* owned by a thread or free.
StageThread(s) == 0 - (s + 1)
StageOf(th) == 0 - th - 1
StageThreads == {StageThread(s) : s \in Stages}
Supervisors == 1 .. NumSupervisors
Threads == StageThreads \cup Supervisors
Free == 0
NoStage == 0 - 1

\* No thread is in a method of the executor, no supervisor has called restart().
LocksInit ==
    /\ thread_at = [th \in Threads |-> IF th \in Supervisors THEN "idle" ELSE "loop"]
    /\ global_mutex = Free
    /\ rd_mutex = << >>
    /\ sup_rd = [u \in Supervisors |-> 0]
    /\ sup_target = [u \in Supervisors |-> NoStage]

\* Bitrate monitor: a Period after clear().
ClearPeriod == [duration |-> 0, packets |-> 0, non_null |-> 0]

\* Bitrate monitor: no computation in the last time check.
NoComputation ==
    [done |-> FALSE, bitrate |-> 0, net_bitrate |-> 0, status |-> "IN_RANGE",
     alarm_status |-> "normal", state_change |-> FALSE, run_command |-> FALSE]

\* Bitrate monitor: no packet was processed.
NoLabels == [go |-> {}, state |-> {}, status |-> "none"]

\* Bitrate monitor: the working data after start() with --periodic-command pc.
Started(periodic) ==
    [periods |-> [i \in 0 .. (WindowSize - 1) |-> ClearPeriod],
     periods_index |-> 0,
     labels_next |-> {},
     last_bitrate_status |-> "IN_RANGE",
     startup |-> TRUE,
     command_countdown |-> periodic]

\* Bitrate monitor: the plugin after getOptions() and start().
MonitorInit(periodic) ==
    /\ periods = Started(periodic).periods
    /\ periods_index = Started(periodic).periods_index
    /\ labels_next = Started(periodic).labels_next
    /\ last_bitrate_status = Started(periodic).last_bitrate_status
    /\ startup = Started(periodic).startup
    /\ command_countdown = Started(periodic).command_countdown
    /\ periodic_command = periodic
    /\ computation = NoComputation
    /\ applied = NoLabels
    /\ computed = << >>

\* UID: the singleton after construction, seed being the process id and the
\* time; no thread is in newUID.
Callers == 1 .. NumCallers

UIDInit(seed) ==
    /\ next_uid = seed
    /\ uid_mutex = Free
    /\ uid_at = [c \in Callers |-> "idle"]
    /\ uid_read = [c \in Callers |-> 0]
    /\ issued = << >>

\* LCN store: no call of getLCN.
NoQuery == [srv_id |-> 0, ts_id |-> 0, onet_id |-> 0, lcn |-> 0]

\* LCN store: the store after construction.
LCNInit ==
    /\ lcn_map = << >>
    /\ found = NoQuery

\* The report of the tsp process, where a plugin reports unless redirected;
\* the report of a restart record is known by the number of the record.
TspReport == 0

\* processPendingRestart: the stage is not in the method.
NotRestarting ==
    [at |-> "return", calls |-> << >>, previous_report |-> TspReport,
     previous_args |-> NoArgs, success |-> TRUE]

\* processPendingRestart: no stage is in the method, the plugins report to tsp.
StatementsInit ==
    /\ ppr = [s \in Stages |-> NotRestarting]
    /\ report = [s \in Stages |-> TspReport]

\* The bitrate monitor executed no undefined operation, the caller of the
\* LCN store has no service description.
OthersInit ==
    /\ fault = {}
    /\ srv_list = << >>

InitState(timeouts) ==
    /\ pkt_first = [s \in Stages |-> InitialWindow(s).first]
    /\ pkt_cnt = [s \in Stages |-> InitialWindow(s).cnt]
    /\ input_end = [s \in Stages |-> InitialWindow(s).input_end]
    /\ tsp_aborting = [s \in Stages |-> InitialWindow(s).aborting]
    /\ bitrate = [s \in Stages |-> InitialWindow(s).bitrate]
    /\ tsp_timeout = timeouts
    /\ pc = [s \in Stages |-> "idle"]
    /\ min_req = [s \in Stages |-> 0]
    /\ ret = [s \in Stages |-> NoRet]
    /\ restart = [s \in Stages |-> FALSE]
    /\ restart_data = [s \in Stages |-> 0]
    /\ rd = << >>
    /\ plugin = [s \in Stages |-> [args |-> InitialArgs, started |-> TRUE]]
    /\ buf = [i \in 0 .. (BufCount - 1) |-> 0]
    /\ written = 0
    /\ out = << >>
    /\ abort_calls = {}
    /\ LocksInit
    /\ LCNInit
    /\ StatementsInit
    /\ OthersInit

\* No plugin has set a packet timeout.
Init == InitState([s \in Stages |-> Infinite]) /\ MonitorInit(0) /\ UIDInit(0)

\* The plugins have set a packet timeout, or none has.
DataInit ==
    /\ \E t \in {Infinite, 1} : InitState([s \in Stages |-> t])
    /\ MonitorInit(0)
    /\ UIDInit(0)

----------------------------------------------------------------------------
\* _to_do.notify_one() on stage t: wakes the thread if it is blocked in wait.

Notified(p, t) == [p EXCEPT ![t] = IF @ = "waiting" THEN "woken" ELSE @]

----------------------------------------------------------------------------
\* setAbort

\* Faulty variant: the next stage is notified instead of the previous one.
SetAbortNotifyingNext(s) ==
    /\ tsp_aborting' = [tsp_aborting EXCEPT ![s] = TRUE]
    /\ pc' = Notified(pc, ringNext(s))
    /\ UNCHANGED <<pkt_first, pkt_cnt, input_end, bitrate, tsp_timeout, aside, min_req, ret, rstate>>

SetAbort(s) ==
    /\ tsp_aborting' = [tsp_aborting EXCEPT ![s] = TRUE]
    /\ pc' = Notified(pc, ringPrevious(s))
    /\ UNCHANGED <<pkt_first, pkt_cnt, input_end, bitrate, tsp_timeout, aside, min_req, ret, rstate>>

----------------------------------------------------------------------------
\* waitWork

\* Faulty variant: the requested minimum is not limited to the buffer size.
ClampMinNone(min_pkt_cnt) == min_pkt_cnt

ClampMin(min_pkt_cnt) == IF min_pkt_cnt > BufCount THEN BufCount ELSE min_pkt_cnt

\* Faulty variant: the wait ends one packet short of the minimum.
WaitLoopCondShort(s, m, timeout) ==
    pkt_cnt[s] + 1 < m /\ ~input_end[s] /\ ~timeout /\ ~tsp_aborting[ringNext(s)]

\* The condition of the wait loop.
WaitLoopCond(s, m, timeout) ==
    pkt_cnt[s] < m /\ ~input_end[s] /\ ~timeout /\ ~tsp_aborting[ringNext(s)]

\* Faulty variant: a minimum that ends at the end of the buffer is taken not
\* to fit.
SlicePktCntStrict(s, m, timeout) ==
    IF timeout THEN 0
    ELSE IF pkt_first[s] + m < BufCount THEN Min(pkt_cnt[s], BufCount - pkt_first[s])
    ELSE pkt_cnt[s]

\* Faulty variant: packets are returned on timeout too.
SlicePktCntOnTimeout(s, m, timeout) ==
    IF pkt_first[s] + m <= BufCount THEN Min(pkt_cnt[s], BufCount - pkt_first[s])
    ELSE pkt_cnt[s]

\* Faulty variant: the slice always extends to the end of the buffer.
SlicePktCntToEnd(s, m, timeout) ==
    IF timeout THEN 0
    ELSE IF pkt_first[s] + m <= BufCount THEN BufCount - pkt_first[s]
    ELSE pkt_cnt[s]

\* The number of returned packets.
SlicePktCnt(s, m, timeout) ==
    IF timeout THEN 0
    ELSE IF pkt_first[s] + m <= BufCount THEN Min(pkt_cnt[s], BufCount - pkt_first[s])
    ELSE pkt_cnt[s]

\* Faulty variant: waitWork never reports the end of input.
RetInputEndNever(s, cnt) == FALSE

\* Faulty variant: the end of input is reported with any slice.
RetInputEndEarly(s, cnt) == input_end[s]

RetInputEnd(s, cnt) == input_end[s] /\ cnt = pkt_cnt[s]

\* Faulty variant: the output stage too reports the abort of its successor.
RetAbortedAny(s) == tsp_aborting[ringNext(s)]

RetAborted(s) == PluginType(s) # "OUTPUT" /\ tsp_aborting[ringNext(s)]

WaitWorkResult(s, m, timeout) ==
    [first |-> pkt_first[s],
     cnt |-> SlicePktCnt(s, m, timeout),
     input_end |-> RetInputEnd(s, SlicePktCnt(s, m, timeout)),
     aborted |-> RetAborted(s),
     timeout |-> timeout]

\* Faulty variant: waitWork stores the returned end-of-input flag in _input_end.
WaitLoopStoringEnd(s, m, timeout) ==
    IF WaitLoopCond(s, m, timeout)
    THEN /\ pc' = [pc EXCEPT ![s] = "waiting"]
         /\ min_req' = [min_req EXCEPT ![s] = m]
         /\ UNCHANGED <<ret, ring>>
    ELSE /\ pc' = [pc EXCEPT ![s] = "ready"]
         /\ min_req' = [min_req EXCEPT ![s] = 0]
         /\ ret' = [ret EXCEPT ![s] = WaitWorkResult(s, m, timeout)]
         /\ input_end' = [input_end EXCEPT ![s] = WaitWorkResult(s, m, timeout).input_end]
         /\ UNCHANGED <<pkt_first, pkt_cnt, tsp_aborting, bitrate>>

\* One evaluation of the wait loop with the mutex held: wait again or return.
WaitLoop(s, m, timeout) ==
    /\ IF WaitLoopCond(s, m, timeout)
       THEN /\ pc' = [pc EXCEPT ![s] = "waiting"]
            /\ min_req' = [min_req EXCEPT ![s] = m]
            /\ UNCHANGED ret
       ELSE /\ pc' = [pc EXCEPT ![s] = "ready"]
            /\ min_req' = [min_req EXCEPT ![s] = 0]
            /\ ret' = [ret EXCEPT ![s] = WaitWorkResult(s, m, timeout)]
    /\ UNCHANGED ring

\* Call of waitWork up to its first wait or its return.
WaitWork(s, min_pkt_cnt) ==
    /\ pc[s] = "idle"
    /\ WaitLoop(s, ClampMin(min_pkt_cnt), FALSE)
    /\ UNCHANGED <<tsp_timeout, aside, rstate, hist>>

\* The thread was notified and got the mutex back.
WaitWorkWake(s) ==
    /\ pc[s] = "woken"
    /\ WaitLoop(s, min_req[s], FALSE)
    /\ UNCHANGED <<tsp_timeout, aside, rstate, hist>>

\* A condition variable may wake its waiter without notification.
SpuriousWakeup(s) ==
    /\ pc[s] = "waiting"
    /\ pc' = [pc EXCEPT ![s] = "woken"]
    /\ UNCHANGED <<ring, tsp_timeout, aside, min_req, ret, rstate, hist>>

\* wait_for() times out, whether or not the stage was notified before it got
\* the mutex back; handlePacketTimeout() returns continue.
PacketTimeout(s, continue) ==
    /\ pc[s] \in {"waiting", "woken"}
    /\ tsp_timeout[s] # Infinite
    /\ WaitLoop(s, min_req[s], ~continue)
    /\ UNCHANGED <<tsp_timeout, aside, rstate, hist>>

----------------------------------------------------------------------------
\* passPackets

\* Faulty variant: the start of the window does not move.
AdvanceFirstStuck(first, count) == first

AdvanceFirst(first, count) == (first + count) % BufCount

\* Faulty variant: the passed packets are not removed from the window.
OwnCountKept(cnt, count) == cnt

OwnCount(cnt, count) == cnt - count

\* Faulty variant: the count of the next stage is assigned, not increased.
NextCountAssigned(cnt, count) == count

NextCount(cnt, count) == cnt + count

\* Faulty variant: the end of input is not propagated to the next stage.
NextInputEndKept(cur, ie) == cur

NextInputEnd(cur, ie) == cur \/ ie

\* Faulty variant: the abort of the next stage is not taken.
PassAbortedArg(s, ab) == ab

\* Force to abort when the next stage is aborting, except for the output.
PassAborted(s, ab) == IF PluginType(s) # "OUTPUT" THEN ab \/ tsp_aborting[ringNext(s)] ELSE ab

\* Faulty variant: _tsp_aborting is assigned from the aborted parameter.
OwnAbortingAssigned(cur, aborted) == aborted

\* Faulty variant: passPackets never marks its stage as aborting.
OwnAbortingNever(cur, aborted) == cur

OwnAborting(cur, aborted) == IF aborted THEN TRUE ELSE cur

PassResult(ie, aborted) == ~ie /\ ~aborted

\* Faulty variant: the previous stage is not notified of an abort.
PassNotifyNextOnly(p, s, count, ie, aborted) ==
    IF count > 0 \/ ie THEN Notified(p, ringNext(s)) ELSE p

\* Notifications of passPackets: next when there is data or end of input,
\* previous when aborting.
PassNotify(p, s, count, ie, aborted) ==
    LET p1 == IF count > 0 \/ ie THEN Notified(p, ringNext(s)) ELSE p
    IN  IF aborted THEN Notified(p1, ringPrevious(s)) ELSE p1

\* The packets of a slice as the plugins move them: the input plugin writes
\* count new packets in its slice, the output plugin sends count packets
\* from its slice, a processor leaves them in place.
Transfer(s, count) ==
    IF PluginType(s) = "INPUT" THEN
        /\ buf' = [i \in 0 .. (BufCount - 1) |->
                      IF \E k \in 0 .. (count - 1) : (ret[s].first + k) % BufCount = i
                      THEN written + 1 + CHOOSE k \in 0 .. (count - 1) : (ret[s].first + k) % BufCount = i
                      ELSE buf[i]]
        /\ written' = written + count
        /\ out' = out
    ELSE IF PluginType(s) = "OUTPUT" THEN
        /\ out' = out \o [k \in 1 .. count |-> buf[(ret[s].first + k - 1) % BufCount]]
        /\ UNCHANGED <<buf, written>>
    ELSE UNCHANGED <<buf, written, out>>

\* Faulty variant: the abort is also set on the next stage.
PassPacketsAbortingNext(s, count, br, ie, ab) ==
    LET next == ringNext(s)
        aborted == PassAborted(s, ab)
    IN  /\ pc[s] = "working"
        /\ count <= pkt_cnt[s]
        /\ pkt_first' = [pkt_first EXCEPT ![s] = AdvanceFirst(@, count)]
        /\ pkt_cnt' = [pkt_cnt EXCEPT ![s] = OwnCount(@, count), ![next] = NextCount(@, count)]
        /\ bitrate' = [bitrate EXCEPT ![next] = br]
        /\ input_end' = [input_end EXCEPT ![next] = NextInputEnd(@, ie)]
        /\ tsp_aborting' = [tsp_aborting EXCEPT ![s] = OwnAborting(@, aborted),
                                                ![next] = @ \/ aborted]
        /\ pc' = PassNotify([pc EXCEPT ![s] = IF PassResult(ie, aborted) THEN "idle" ELSE "done"],
                            s, count, ie, aborted)
        /\ ret' = [ret EXCEPT ![s] = NoRet]
        /\ UNCHANGED <<tsp_timeout, aside, min_req, rstate>>

PassPackets(s, count, br, ie, ab) ==
    LET next == ringNext(s)
        aborted == PassAborted(s, ab)
    IN  /\ pc[s] = "working"
        /\ count <= pkt_cnt[s]
        /\ pkt_first' = [pkt_first EXCEPT ![s] = AdvanceFirst(@, count)]
        /\ pkt_cnt' = [pkt_cnt EXCEPT ![s] = OwnCount(@, count), ![next] = NextCount(@, count)]
        /\ bitrate' = [bitrate EXCEPT ![next] = br]
        /\ input_end' = [input_end EXCEPT ![next] = NextInputEnd(@, ie)]
        /\ tsp_aborting' = [tsp_aborting EXCEPT ![s] = OwnAborting(@, aborted)]
        /\ pc' = PassNotify([pc EXCEPT ![s] = IF PassResult(ie, aborted) THEN "idle" ELSE "done"],
                            s, count, ie, aborted)
        /\ ret' = [ret EXCEPT ![s] = NoRet]
        /\ UNCHANGED <<tsp_timeout, aside, min_req, rstate>>

----------------------------------------------------------------------------
\* restart and processPendingRestart

\* completed: the restart is over; error, warning: report.error() and
\* report.warning() were called by the executor on the report of the record.
RestartData(params, same) ==
    [args |-> params, same_args |-> same, completed |-> FALSE, error |-> FALSE,
     warning |-> FALSE]

\* Faulty variant: the pending record is dropped without a word.
InterruptedSilently(r) == r

\* The pending record is cancelled: completed, with an error on its report.
Interrupted(r) == [r EXCEPT !.completed = TRUE, !.error = TRUE]

\* restart(const RestartDataPtr&)
Restart(s, r) ==
    /\ LET old == restart_data[s]
           cancelled == IF old # 0 THEN [rd EXCEPT ![old] = Interrupted(@)] ELSE rd
       IN  rd' = Append(cancelled, r)
    /\ restart_data' = [restart_data EXCEPT ![s] = Len(rd) + 1]
    /\ restart' = [restart EXCEPT ![s] = TRUE]
    /\ pc' = Notified(pc, s)
    /\ UNCHANGED <<ring, tsp_timeout, aside, min_req, ret, plugin, hist>>

\* restart(Report&): restart with the same arguments.
RestartSame(s) == Restart(s, RestartData(NoArgs, TRUE))

\* restart(const UStringVector&, Report&): restart with new arguments.
RestartParams(s, params) == Restart(s, RestartData(params, FALSE))

\* Faulty variant: the calling thread is not told that the restart is done.
ServicedNever(r) == r

\* The restart is done: the record is completed.
Serviced(r) == [r EXCEPT !.completed = TRUE]

\* analyze() and getOptions() of the plugin on a command line.
PluginAnalyze(a) == a # "bad_syntax"
PluginGetOptions(a) == a # "bad_options"
Configure(a) == PluginAnalyze(a) /\ PluginGetOptions(a)

\* The restart failed with the new arguments: warning on the report of the record.
Warned(r) == [r EXCEPT !.warning = TRUE]

\* Faulty variant: the second attempt uses the new arguments again.
FallbackArgsNew(previous_args, new_args) == new_args

\* The arguments of the second attempt.
FallbackArgs(previous_args, new_args) == previous_args

\* The plugin and the record after the restart attempts; start1 and start2
\* are the results of start() in the first and in the second attempt.
RestartAttempt(p, r, start1, start2) ==
    IF r.same_args
    THEN [plugin |-> [p EXCEPT !.started = start1], record |-> r]
    ELSE IF Configure(r.args) /\ start1
         THEN [plugin |-> [args |-> r.args, started |-> TRUE], record |-> r]
         ELSE LET a == FallbackArgs(p.args, r.args)
              IN  [plugin |-> [args |-> a, started |-> Configure(a) /\ start2],
                   record |-> Warned(r)]

\* A restart is pending on stage s (pendingRestart).
PendingRestart(s) == restart[s] /\ restart_data[s] # 0

\* Faulty variant: the restart also empties the window of the stage.
ProcessPendingRestartFlushing(s) ==
    /\ pc[s] = "ready"
    /\ pc' = [pc EXCEPT ![s] = "working"]
    /\ IF ~restart[s] \/ restart_data[s] = 0
       THEN UNCHANGED <<rstate, ring>>
       ELSE /\ \E start1, start2 \in BOOLEAN :
                 LET after == RestartAttempt(plugin[s], rd[restart_data[s]], start1, start2)
                 IN  /\ plugin' = [plugin EXCEPT ![s] = after.plugin]
                     /\ rd' = [rd EXCEPT ![restart_data[s]] = Serviced(after.record)]
            /\ restart' = [restart EXCEPT ![s] = FALSE]
            /\ restart_data' = [restart_data EXCEPT ![s] = 0]
            /\ pkt_cnt' = [pkt_cnt EXCEPT ![s] = 0]
            /\ UNCHANGED <<pkt_first, input_end, tsp_aborting, bitrate>>
    /\ UNCHANGED <<tsp_timeout, aside, min_req, ret, hist>>

ProcessPendingRestart(s) ==
    /\ pc[s] = "ready"
    /\ pc' = [pc EXCEPT ![s] = "working"]
    /\ IF ~restart[s] \/ restart_data[s] = 0
       THEN UNCHANGED rstate
       ELSE /\ \E start1, start2 \in BOOLEAN :
                 LET after == RestartAttempt(plugin[s], rd[restart_data[s]], start1, start2)
                 IN  /\ plugin' = [plugin EXCEPT ![s] = after.plugin]
                     /\ rd' = [rd EXCEPT ![restart_data[s]] = Serviced(after.record)]
            /\ restart' = [restart EXCEPT ![s] = FALSE]
            /\ restart_data' = [restart_data EXCEPT ![s] = 0]
    /\ UNCHANGED <<ring, tsp_timeout, aside, min_req, ret, hist>>

----------------------------------------------------------------------------
\* The executor loops. Each stage thread repeats: waitWork with the minimum
\* its plugin asks for, processPendingRestart, the plugin operation on the
\* returned slice, passPackets with the count and the end and abort flags;
\* the loop exits when passPackets returns false. A timeout that the plugin
\* declares fatal ends the stage: end of input forward, abort backward.

PluginBitrate(s) == IF PluginType(s) = "OUTPUT" THEN 0 ELSE 1

\* The minimum number of packets a plugin may ask for.
RequestedMin(s) == IF PluginType(s) = "PROCESSOR" THEN 1 .. BufCount ELSE {1}

CallWaitWork(s) == \E m \in RequestedMin(s) : WaitWork(s, m)

\* Input: receive() writes n packets in the slice, 0 at end of input.
InputLoop(s, n) ==
    /\ PluginType(s) = "INPUT"
    /\ PassPackets(s, n, PluginBitrate(s), n = 0, ret[s].aborted \/ ret[s].timeout)

\* Processor: a pass-through plugin, every packet of the slice is passed.
ProcessorLoop(s) ==
    /\ PluginType(s) = "PROCESSOR"
    /\ PassPackets(s, ret[s].cnt, PluginBitrate(s),
                   ret[s].input_end \/ ret[s].timeout, ret[s].aborted \/ ret[s].timeout)

\* Output: send() the slice, then release the slots to the input stage,
\* never with the end of input.
OutputLoop(s) ==
    /\ PluginType(s) = "OUTPUT"
    /\ ~(ret[s].input_end /\ ret[s].cnt = 0)
    /\ \E sendFailed \in (IF ret[s].cnt > 0 THEN BOOLEAN ELSE {FALSE}) :
          PassPackets(s, ret[s].cnt, PluginBitrate(s), FALSE, sendFailed \/ ret[s].timeout)

\* Output leaves its loop when waitWork reports the end of input with no packet.
OutputExit(s) ==
    /\ PluginType(s) = "OUTPUT"
    /\ pc[s] = "working"
    /\ ret[s].input_end /\ ret[s].cnt = 0
    /\ pc' = [pc EXCEPT ![s] = "done"]
    /\ ret' = [ret EXCEPT ![s] = NoRet]
    /\ UNCHANGED <<ring, tsp_timeout, aside, min_req, rstate, hist>>

HandlerResult(s) == \E continue \in BOOLEAN : PacketTimeout(s, continue)

----------------------------------------------------------------------------
\* The ring with its supervisors: the stage threads, abort and restart
\* requests at any time, no packet timeout. The content of the packets is
\* not followed.

InputPass(s) == (\E n \in 0 .. ret[s].cnt : InputLoop(s, n)) /\ UNCHANGED hist

ProcessorPass(s) == ProcessorLoop(s) /\ UNCHANGED hist

OutputPass(s) == OutputLoop(s) /\ UNCHANGED hist

AbortRequest(s) == SetAbort(s) /\ UNCHANGED hist

\* A supervisor asks for a restart with the same arguments.
RestartRequest(s) == Len(rd) < MaxRestarts /\ RestartSame(s)

Next ==
    \E s \in Stages :
        \/ CallWaitWork(s)
        \/ WaitWorkWake(s)
        \/ ProcessPendingRestart(s)
        \/ InputPass(s)
        \/ ProcessorPass(s)
        \/ OutputPass(s)
        \/ OutputExit(s)
        \/ SpuriousWakeup(s)
        \/ AbortRequest(s)
        \/ RestartRequest(s)

Spec == Init /\ [][Next]_vars

----------------------------------------------------------------------------
\* The ring with its packets: the input plugin delivers numbered packets,
\* MaxPackets at most, and the calls of setAbort() are recorded.

InputData(s) ==
    /\ \E n \in 0 .. Min(ret[s].cnt, MaxPackets - written) : InputLoop(s, n) /\ Transfer(s, n)
    /\ UNCHANGED abort_calls

ProcessorData(s) == ProcessorLoop(s) /\ Transfer(s, ret[s].cnt) /\ UNCHANGED abort_calls

OutputData(s) == OutputLoop(s) /\ Transfer(s, ret[s].cnt) /\ UNCHANGED abort_calls

AbortCall(s) ==
    /\ SetAbort(s)
    /\ abort_calls' = abort_calls \cup {s}
    /\ UNCHANGED <<buf, written, out>>

\* The steps of the thread of stage s.
Worker(s) ==
    \/ CallWaitWork(s)
    \/ WaitWorkWake(s)
    \/ ProcessPendingRestart(s)
    \/ InputData(s)
    \/ ProcessorData(s)
    \/ OutputData(s)
    \/ OutputExit(s)

DataNext ==
    \E s \in Stages :
        \/ CallWaitWork(s)
        \/ WaitWorkWake(s)
        \/ ProcessPendingRestart(s)
        \/ InputData(s)
        \/ ProcessorData(s)
        \/ OutputData(s)
        \/ OutputExit(s)
        \/ SpuriousWakeup(s)
        \/ HandlerResult(s)
        \/ AbortCall(s)

\* Fair scheduling of the stage threads. Spurious wake-ups, timeouts and
\* abort requests may or may not happen.
LiveSpec == DataInit /\ [][DataNext]_vars /\ \A s \in Stages : WF_vars(Worker(s))

----------------------------------------------------------------------------
\* The methods called with any arguments: every stage thread calls waitWork
\* with any minimum and passPackets with any count its window holds, a
\* bitrate and any end and abort flags; setAbort() is called at any time.
\* No plugin has set a packet timeout.

MinArgs == 0 .. (BufCount + 1)

BitrateArgs == {1}

AnyWaitWork(s) == \E m \in MinArgs : WaitWork(s, m)

AnyPassPackets(s) ==
    /\ \E count \in 0 .. pkt_cnt[s] : \E br \in BitrateArgs : \E ie, ab \in BOOLEAN :
          PassPackets(s, count, br, ie, ab)
    /\ UNCHANGED hist

CallNext ==
    \E s \in Stages :
        \/ AnyWaitWork(s)
        \/ WaitWorkWake(s)
        \/ ProcessPendingRestart(s)
        \/ AnyPassPackets(s)
        \/ SpuriousWakeup(s)
        \/ AbortRequest(s)

CallSpec == Init /\ [][CallNext]_vars

----------------------------------------------------------------------------
\* The ring with concurrent supervisors: restart() is called at any time, on
\* any stage, also on a stage with a pending restart. A supervisor is blocked
\* in restart() as long as its record is not completed. No abort request, no
\* packet timeout.

RestartCall(s) == Len(rd) < MaxRequests /\ RestartSame(s)

\* The steps of the thread of stage s that do not depend on the outside: all
\* but receive() of the input plugin, which blocks until packets arrive.
Servicing(s) ==
    \/ CallWaitWork(s)
    \/ WaitWorkWake(s)
    \/ ProcessPendingRestart(s)
    \/ ProcessorPass(s)
    \/ OutputPass(s)
    \/ OutputExit(s)

RestartNext ==
    \E s \in Stages :
        \/ CallWaitWork(s)
        \/ WaitWorkWake(s)
        \/ ProcessPendingRestart(s)
        \/ InputPass(s)
        \/ ProcessorPass(s)
        \/ OutputPass(s)
        \/ OutputExit(s)
        \/ RestartCall(s)

RestartSpec == Init /\ [][RestartNext]_vars /\ \A s \in Stages : WF_vars(Servicing(s))

----------------------------------------------------------------------------
\* The ring with its packets and a supervisor: the input plugin delivers
\* numbered packets, restart() with the same arguments is called at any
\* time on any stage. No abort request, no packet timeout.

RestartDataNext ==
    \E s \in Stages :
        \/ CallWaitWork(s)
        \/ WaitWorkWake(s)
        \/ ProcessPendingRestart(s)
        \/ InputData(s)
        \/ ProcessorData(s)
        \/ OutputData(s)
        \/ OutputExit(s)
        \/ RestartRequest(s)

RestartDataSpec ==
    Init /\ [][RestartDataNext]_vars /\ \A s \in Stages : WF_vars(Worker(s))

----------------------------------------------------------------------------
\* The ring with supervisors that change the arguments of the plugins:
\* restart() with new arguments, valid or not, at any time, on any stage.

RestartParamsCall(s) ==
    /\ Len(rd) < MaxRequests
    /\ \E params \in NewArgs : RestartParams(s, params)

ConfigNext ==
    \E s \in Stages :
        \/ CallWaitWork(s)
        \/ WaitWorkWake(s)
        \/ ProcessPendingRestart(s)
        \/ InputPass(s)
        \/ ProcessorPass(s)
        \/ OutputPass(s)
        \/ OutputExit(s)
        \/ RestartParamsCall(s)

ConfigSpec == Init /\ [][ConfigNext]_vars

----------------------------------------------------------------------------
\* The threads and the mutexes. Each method is followed lock by lock: the
\* global mutex, the mutex and the condition of each RestartData record, the
\* condition _to_do on which waitWork waits, the calls of the plugin. The
\* windows of the ring and the state of the plugins are not followed here.

ringvars == <<ring, tsp_timeout, pc, min_req, ret, hist, monitor, computed, uid, lcn_store,
              statements, others>>

At(th, where, to) ==
    /\ thread_at[th] = where
    /\ thread_at' = [thread_at EXCEPT ![th] = to]

\* std::lock_guard / std::unique_lock on _global_mutex.
LockGlobal(th) == global_mutex = Free /\ global_mutex' = th

\* Faulty variant: the global mutex is kept when the block is left.
UnlockGlobalKept(th) == global_mutex' = global_mutex

\* The lock on _global_mutex goes out of scope.
UnlockGlobal(th) == global_mutex' = Free

\* condition.notify_one() on record i: wakes the supervisor that waits on it.
NotifiedCond(at, i) ==
    [u \in Threads |->
        IF u \in Supervisors /\ sup_rd[u] = i /\ at[u] = "cond_wait" THEN "cond_woken" ELSE at[u]]

\* waitWork: lock of the global mutex.
WaitWorkLock(th) ==
    /\ At(th, "loop", "ww_locked")
    /\ LockGlobal(th)
    /\ UNCHANGED <<rd_mutex, sup_rd, sup_target, rstate, ringvars>>

\* waitWork: _to_do.wait or wait_for releases the mutex and blocks.
WaitWorkBlock(th) ==
    /\ At(th, "ww_locked", "ww_wait")
    /\ UnlockGlobal(th)
    /\ UNCHANGED <<rd_mutex, sup_rd, sup_target, rstate, ringvars>>

\* Faulty variant: after a timeout the handler is called before the mutex is
\* locked again.
WaitWorkRelockLate(th, timed_out) ==
    /\ At(th, "ww_wait", IF timed_out THEN "ww_handler" ELSE "ww_locked")
    /\ IF timed_out THEN UNCHANGED global_mutex ELSE LockGlobal(th)
    /\ UNCHANGED <<rd_mutex, sup_rd, sup_target, rstate, ringvars>>

\* waitWork: the wait ends and relocks the mutex; after a timeout of
\* wait_for, handlePacketTimeout() of the plugin is called.
WaitWorkRelock(th, timed_out) ==
    /\ At(th, "ww_wait", IF timed_out THEN "ww_handler" ELSE "ww_locked")
    /\ LockGlobal(th)
    /\ UNCHANGED <<rd_mutex, sup_rd, sup_target, rstate, ringvars>>

\* waitWork: handlePacketTimeout() returns.
WaitWorkHandled(th) ==
    /\ At(th, "ww_handler", "ww_locked")
    /\ UNCHANGED <<global_mutex, rd_mutex, sup_rd, sup_target, rstate, ringvars>>

\* waitWork returns.
WaitWorkUnlock(th) ==
    /\ At(th, "ww_locked", "ww_done")
    /\ UnlockGlobal(th)
    /\ UNCHANGED <<rd_mutex, sup_rd, sup_target, rstate, ringvars>>

\* processPendingRestart: lock1.
PprLock(th) ==
    /\ At(th, "ww_done", "ppr_locked1")
    /\ LockGlobal(th)
    /\ UNCHANGED <<rd_mutex, sup_rd, sup_target, rstate, ringvars>>

\* processPendingRestart: no pending restart, immediate success.
PprNothing(th) ==
    /\ ~PendingRestart(StageOf(th))
    /\ At(th, "ppr_locked1", "ppr_done")
    /\ UnlockGlobal(th)
    /\ UNCHANGED <<rd_mutex, sup_rd, sup_target, rstate, ringvars>>

\* processPendingRestart: lock2, then the calls of the plugin begin.
PprLockRecord(th) ==
    /\ PendingRestart(StageOf(th))
    /\ At(th, "ppr_locked1", "ppr_plugin")
    /\ rd_mutex[restart_data[StageOf(th)]] = Free
    /\ rd_mutex' = [rd_mutex EXCEPT ![restart_data[StageOf(th)]] = th]
    /\ UNCHANGED <<global_mutex, sup_rd, sup_target, rstate, ringvars>>

\* processPendingRestart: the calls of the plugin are over; the record is
\* completed, its condition notified, the trigger cleared, both locks go out
\* of scope.
PprComplete(th) ==
    LET s == StageOf(th)
        i == restart_data[s]
    IN  /\ thread_at[th] = "ppr_plugin"
        /\ thread_at' = [NotifiedCond(thread_at, i) EXCEPT ![th] = "ppr_done"]
        /\ rd' = [rd EXCEPT ![i] = Serviced(@)]
        /\ restart' = [restart EXCEPT ![s] = FALSE]
        /\ restart_data' = [restart_data EXCEPT ![s] = 0]
        /\ rd_mutex' = [rd_mutex EXCEPT ![i] = Free]
        /\ UnlockGlobal(th)
        /\ UNCHANGED <<sup_rd, sup_target, plugin, ringvars>>

\* passPackets: lock of the global mutex.
PassLock(th) ==
    /\ At(th, "ppr_done", "pass_locked")
    /\ LockGlobal(th)
    /\ UNCHANGED <<rd_mutex, sup_rd, sup_target, rstate, ringvars>>

\* passPackets returns.
PassUnlock(th) ==
    /\ At(th, "pass_locked", "loop")
    /\ UnlockGlobal(th)
    /\ UNCHANGED <<rd_mutex, sup_rd, sup_target, rstate, ringvars>>

\* restart(rd) on stage s: lock1.
RestartLock(u, s) ==
    /\ At(u, "idle", "r_locked1")
    /\ LockGlobal(u)
    /\ sup_target' = [sup_target EXCEPT ![u] = s]
    /\ UNCHANGED <<rd_mutex, sup_rd, rstate, ringvars>>

\* restart(rd): a restart is pending, lock2 on its record.
RestartLockPrevious(u) ==
    LET old == restart_data[sup_target[u]]
    IN  /\ At(u, "r_locked1", "r_locked2")
        /\ old # 0
        /\ rd_mutex[old] = Free
        /\ rd_mutex' = [rd_mutex EXCEPT ![old] = u]
        /\ UNCHANGED <<global_mutex, sup_rd, sup_target, rstate, ringvars>>

\* restart(rd): the pending restart is cancelled, its supervisor notified,
\* lock2 goes out of scope.
RestartCancel(u) ==
    LET old == restart_data[sup_target[u]]
    IN  /\ thread_at[u] = "r_locked2"
        /\ thread_at' = [NotifiedCond(thread_at, old) EXCEPT ![u] = "r_declare"]
        /\ rd' = [rd EXCEPT ![old] = Interrupted(@)]
        /\ rd_mutex' = [rd_mutex EXCEPT ![old] = Free]
        /\ UNCHANGED <<global_mutex, sup_rd, sup_target, restart, restart_data, plugin,
                       ringvars>>

\* restart(rd): the new restart is declared and lock1 goes out of scope.
RestartDeclare(u) ==
    LET s == sup_target[u]
    IN  /\ thread_at[u] \in {"r_locked1", "r_declare"}
        /\ thread_at[u] = "r_locked1" => restart_data[s] = 0
        /\ thread_at' = [thread_at EXCEPT ![u] = "r_unlocked"]
        /\ rd' = Append(rd, RestartData(NoArgs, TRUE))
        /\ rd_mutex' = Append(rd_mutex, Free)
        /\ sup_rd' = [sup_rd EXCEPT ![u] = Len(rd) + 1]
        /\ restart_data' = [restart_data EXCEPT ![s] = Len(rd) + 1]
        /\ restart' = [restart EXCEPT ![s] = TRUE]
        /\ UnlockGlobal(u)
        /\ UNCHANGED <<sup_target, plugin, ringvars>>

\* restart(rd): lock3 on the new record, at first or when the wait ends.
RestartLockRecord(u) ==
    /\ thread_at[u] \in {"r_unlocked", "cond_woken"}
    /\ thread_at' = [thread_at EXCEPT ![u] = "r_locked3"]
    /\ rd_mutex[sup_rd[u]] = Free
    /\ rd_mutex' = [rd_mutex EXCEPT ![sup_rd[u]] = u]
    /\ UNCHANGED <<global_mutex, sup_rd, sup_target, rstate, ringvars>>

\* restart(rd): condition.wait with the predicate rd->completed: return, or
\* release the mutex of the record and block.
RestartWait(u) ==
    /\ At(u, "r_locked3", IF rd[sup_rd[u]].completed THEN "returned" ELSE "cond_wait")
    /\ rd_mutex' = [rd_mutex EXCEPT ![sup_rd[u]] = Free]
    /\ UNCHANGED <<global_mutex, sup_rd, sup_target, rstate, ringvars>>

StageStep(th) ==
    \/ WaitWorkLock(th)
    \/ WaitWorkBlock(th)
    \/ \E timed_out \in BOOLEAN : WaitWorkRelock(th, timed_out)
    \/ WaitWorkHandled(th)
    \/ WaitWorkUnlock(th)
    \/ PprLock(th)
    \/ PprNothing(th)
    \/ PprLockRecord(th)
    \/ PprComplete(th)
    \/ PassLock(th)
    \/ PassUnlock(th)

SupervisorStep(u) ==
    \/ \E s \in Stages : RestartLock(u, s)
    \/ RestartLockPrevious(u)
    \/ RestartCancel(u)
    \/ RestartDeclare(u)
    \/ RestartLockRecord(u)
    \/ RestartWait(u)

LockNext ==
    \/ \E th \in StageThreads : StageStep(th)
    \/ \E u \in Supervisors : SupervisorStep(u)

LockSpec == Init /\ [][LockNext]_vars

----------------------------------------------------------------------------
\* processPendingRestart statement by statement. The method runs with the
\* global mutex held from its first statement to its return, so that one
\* stage at a time is in it and restart() waits for its return.

\* Faulty variant: the record is completed before the report is restored.
FollowingCompletedFirst(at, same_args, ok) ==
    IF at = "stop" THEN "restartPluginSession"
    ELSE IF at = "restartPluginSession" THEN "resetContext"
    ELSE IF at = "resetContext" THEN "redirectReport"
    ELSE IF at = "redirectReport" THEN (IF same_args THEN "start" ELSE "getCommandArgs")
    ELSE IF at = "start" THEN "completed"
    ELSE IF at = "getCommandArgs" THEN "setFlags"
    ELSE IF at = "setFlags" THEN "analyze"
    ELSE IF at = "analyze" THEN (IF ok THEN "getOptions" ELSE "warning")
    ELSE IF at = "getOptions" THEN (IF ok THEN "start_new" ELSE "warning")
    ELSE IF at = "start_new" THEN (IF ok THEN "completed" ELSE "warning")
    ELSE IF at = "warning" THEN "analyze_previous"
    ELSE IF at = "analyze_previous" THEN (IF ok THEN "getOptions_previous" ELSE "completed")
    ELSE IF at = "getOptions_previous" THEN (IF ok THEN "start_previous" ELSE "completed")
    ELSE IF at = "start_previous" THEN "completed"
    ELSE IF at = "completed" THEN "notify_one"
    ELSE IF at = "notify_one" THEN "restoreReport"
    ELSE IF at = "restoreReport" THEN "clear"
    ELSE "return"

\* The statement that follows statement at, ok being the result of at when
\* it is a call of analyze, getOptions or start: && does not evaluate its
\* right operand when the left one is false.
Following(at, same_args, ok) ==
    IF at = "stop" THEN "restartPluginSession"
    ELSE IF at = "restartPluginSession" THEN "resetContext"
    ELSE IF at = "resetContext" THEN "redirectReport"
    ELSE IF at = "redirectReport" THEN (IF same_args THEN "start" ELSE "getCommandArgs")
    ELSE IF at = "start" THEN "restoreReport"
    ELSE IF at = "getCommandArgs" THEN "setFlags"
    ELSE IF at = "setFlags" THEN "analyze"
    ELSE IF at = "analyze" THEN (IF ok THEN "getOptions" ELSE "warning")
    ELSE IF at = "getOptions" THEN (IF ok THEN "start_new" ELSE "warning")
    ELSE IF at = "start_new" THEN (IF ok THEN "restoreReport" ELSE "warning")
    ELSE IF at = "warning" THEN "analyze_previous"
    ELSE IF at = "analyze_previous" THEN (IF ok THEN "getOptions_previous" ELSE "restoreReport")
    ELSE IF at = "getOptions_previous" THEN (IF ok THEN "start_previous" ELSE "restoreReport")
    ELSE IF at = "start_previous" THEN "restoreReport"
    ELSE IF at = "restoreReport" THEN "completed"
    ELSE IF at = "completed" THEN "notify_one"
    ELSE IF at = "notify_one" THEN "clear"
    ELSE "return"

\* The calls of plugin()->start().
Starts == {"start", "start_new", "start_previous"}

\* The result of statement at of stage s when start() returns started.
ResultOf(s, at, started) ==
    IF at = "analyze" THEN PluginAnalyze(rd[restart_data[s]].args)
    ELSE IF at = "getOptions" THEN PluginGetOptions(plugin[s].args)
    ELSE IF at = "analyze_previous" THEN PluginAnalyze(ppr[s].previous_args)
    ELSE IF at = "getOptions_previous" THEN PluginGetOptions(plugin[s].args)
    ELSE IF at \in Starts THEN started
    ELSE TRUE

\* No stage is in processPendingRestart: the global mutex is free.
NoneRestarting == \A s \in Stages : ppr[s].at = "return"

\* processPendingRestart up to its first call of the plugin: lock1, the test
\* of the pending restart, lock2.
PprEnter(s) ==
    /\ NoneRestarting
    /\ ppr' = [ppr EXCEPT ![s] =
                 IF PendingRestart(s)
                 THEN [NotRestarting EXCEPT !.at = "stop", !.previous_report = report[s]]
                 ELSE NotRestarting]
    /\ UNCHANGED <<rstate, report>>

\* One statement of processPendingRestart; start() returns started.
PprStatement(s, started) ==
    LET at == ppr[s].at
        ok == ResultOf(s, at, started)
        record == restart_data[s]
    IN  /\ at # "return"
        /\ ppr' = [ppr EXCEPT ![s] =
                     [at |-> Following(at, rd[record].same_args, ok),
                      calls |-> Append(ppr[s].calls, at),
                      previous_report |-> IF at = "redirectReport" THEN report[s]
                                          ELSE ppr[s].previous_report,
                      previous_args |-> IF at = "getCommandArgs" THEN plugin[s].args
                                        ELSE ppr[s].previous_args,
                      success |-> IF at \in Starts \cup {"analyze", "getOptions",
                                                "analyze_previous", "getOptions_previous"}
                                  THEN ok ELSE ppr[s].success]]
        /\ report' = [report EXCEPT ![s] =
                        IF at = "redirectReport" THEN record
                        ELSE IF at = "restoreReport" THEN ppr[s].previous_report
                        ELSE @]
        /\ plugin' = [plugin EXCEPT ![s] =
                        IF at = "stop" THEN [@ EXCEPT !.started = FALSE]
                        ELSE IF at = "analyze" /\ ok THEN [@ EXCEPT !.args = rd[record].args]
                        ELSE IF at = "analyze_previous" /\ ok
                             THEN [@ EXCEPT !.args = ppr[s].previous_args]
                        ELSE IF at \in Starts THEN [@ EXCEPT !.started = ok]
                        ELSE @]
        /\ rd' = IF at = "warning" THEN [rd EXCEPT ![record] = Warned(@)]
                 ELSE IF at = "completed" THEN [rd EXCEPT ![record] = Serviced(@)]
                 ELSE rd
        /\ restart' = IF at = "clear" THEN [restart EXCEPT ![s] = FALSE] ELSE restart
        /\ restart_data' = IF at = "clear" THEN [restart_data EXCEPT ![s] = 0]
                           ELSE restart_data

\* restart() of a supervisor, with the same arguments or with new ones; it
\* takes the global mutex.
StatementsRestart(s) ==
    /\ NoneRestarting
    /\ Len(rd) < MaxRequests
    /\ RestartSame(s) \/ \E params \in NewArgs : RestartParams(s, params)

notstatements == <<ring, tsp_timeout, pc, min_req, ret, hist, locks, monitor, computed,
                   uid, lcn_store, others>>

StatementsNext ==
    \E s \in Stages :
        \/ StatementsRestart(s)
        \/ PprEnter(s) /\ UNCHANGED notstatements
        \/ \E started \in BOOLEAN : PprStatement(s, started) /\ UNCHANGED notstatements

StatementsSpec == Init /\ [][StatementsNext]_vars

----------------------------------------------------------------------------
\* The bitrate monitor plugin (bitrate_monitor), a packet processor. The
\* plugin counts the packets of the monitored PID's period by period, a
\* period lasting about one second, and computes the bitrate over the last
\* WindowSize periods at the end of each period.

\* The packets by PID: a monitored PID, the null PID (monitored too), a PID
\* that is not monitored.
PacketKinds == {"pid", "null", "other"}
MonitoredPids == {"pid", "null"}

\* Time since the last measurement point as the clock gives it: less than a
\* second, a second, a second and a fraction of microsecond more.
Elapsed == {NanoSecPerSec - 1, NanoSecPerSec, NanoSecPerSec + 1500}

\* --periodic-command: none, or every two seconds.
PeriodicCommands == {0, 2}

RECURSIVE SumPeriods(_, _, _)
\* Sum of field f over the periods 0 .. n - 1 of ps.
SumPeriods(ps, f, n) == IF n = 0 THEN 0 ELSE ps[n - 1][f] + SumPeriods(ps, f, n - 1)

\* _periods.size()
Size(ps) == Cardinality(DOMAIN ps)

\* Faulty variant: the duration is taken in nanoseconds.
WindowDurationNano(ps) == SumPeriods(ps, "duration", Size(ps))

\* The duration of the window in microseconds.
WindowDuration(ps) == SumPeriods(ps, "duration", Size(ps)) \div NanoSecPerMicroSec

\* The bitrate of count packets over the window.
BitrateOf(count, ps) ==
    IF WindowDuration(ps) > 0
    THEN (count * PKT_SIZE_BITS * MicroSecPerSec) \div WindowDuration(ps)
    ELSE 0

\* Faulty variant: the bounds of the allowed range are out of the range.
RangeStatusExclusive(b) ==
    IF b <= MinBitrate THEN "LOWER" ELSE IF b >= MaxBitrate THEN "GREATER" ELSE "IN_RANGE"

\* The status of a bitrate regarding the allowed range.
RangeStatus(b) ==
    IF b < MinBitrate THEN "LOWER" ELSE IF b > MaxBitrate THEN "GREATER" ELSE "IN_RANGE"

\* The status as the alarm command receives it.
AlarmStatus(b) ==
    IF b < MinBitrate THEN "lower" ELSE IF b > MaxBitrate THEN "greater" ELSE "normal"

\* Faulty variant: the go-labels of the previous status are set.
GoLabelsOfPrevious(new_status, last_status) ==
    IF last_status = "LOWER" THEN "go_below"
    ELSE IF last_status = "IN_RANGE" THEN "go_normal" ELSE "go_above"

\* The labels to set on the next packet when the status changes.
GoLabels(new_status, last_status) ==
    IF new_status = "LOWER" THEN "go_below"
    ELSE IF new_status = "IN_RANGE" THEN "go_normal" ELSE "go_above"

\* Faulty variant: the cases of the switch fall through.
StateLabelsFallThrough(status) ==
    IF status = "LOWER" THEN {"below", "normal", "above"}
    ELSE IF status = "IN_RANGE" THEN {"normal", "above"} ELSE {"above"}

\* The label sets to set on all packets while in a status.
StateLabels(status) ==
    IF status = "LOWER" THEN {"below"}
    ELSE IF status = "IN_RANGE" THEN {"normal"} ELSE {"above"}

\* Faulty variant: every computation but the first is a change of status.
StateChangeAlways(new_status, last_status) == TRUE

StateChange(new_status, last_status) == new_status # last_status

\* computeBitrate on the working data m with --periodic-command periodic.
ComputeBitrate(m, periodic) ==
    LET new_bitrate == BitrateOf(SumPeriods(m.periods, "packets", Size(m.periods)), m.periods)
        net_bitrate == BitrateOf(SumPeriods(m.periods, "non_null", Size(m.periods)), m.periods)
        new_bitrate_status == RangeStatus(new_bitrate)
        run_command == periodic > 0 /\ m.command_countdown - 1 <= 0
        countdown == IF periodic > 0
                     THEN (IF run_command THEN periodic ELSE m.command_countdown - 1)
                     ELSE m.command_countdown
        state_change == StateChange(new_bitrate_status, m.last_bitrate_status)
    IN  [work |-> [m EXCEPT
                     !.command_countdown = countdown,
                     !.labels_next =
                         IF state_change
                         THEN @ \cup {GoLabels(new_bitrate_status, m.last_bitrate_status)}
                         ELSE @,
                     !.last_bitrate_status =
                         IF state_change \/ run_command THEN new_bitrate_status ELSE @],
         computation |-> [done |-> TRUE, bitrate |-> new_bitrate, net_bitrate |-> net_bitrate,
                          status |-> new_bitrate_status,
                          alarm_status |-> AlarmStatus(new_bitrate),
                          state_change |-> state_change,
                          run_command |-> run_command]]

\* Faulty variant: the start-up ends at the first second.
StillStartupNever(index) == FALSE

\* The start-up lasts until the index of the periods cycles.
StillStartup(index) == index # 0

\* checkTime on the working data m when the clock gives since_last_second.
CheckTime(m, periodic, since_last_second) ==
    IF since_last_second >= NanoSecPerSec
    THEN LET timed == [m EXCEPT !.periods[m.periods_index].duration = since_last_second]
             c == IF ~m.startup THEN ComputeBitrate(timed, periodic)
                  ELSE [work |-> timed, computation |-> NoComputation]
             index == (m.periods_index + 1) % Size(m.periods)
         IN  [work |-> [c.work EXCEPT !.periods_index = index,
                                       !.periods[index] = ClearPeriod,
                                       !.startup = IF m.startup THEN StillStartup(index) ELSE FALSE],
              computation |-> c.computation]
    ELSE [work |-> m, computation |-> NoComputation]

\* The working data of the plugin.
Work ==
    [periods |-> periods, periods_index |-> periods_index, labels_next |-> labels_next,
     last_bitrate_status |-> last_bitrate_status, startup |-> startup,
     command_countdown |-> command_countdown]

SetWork(m) ==
    /\ periods' = m.periods
    /\ periods_index' = m.periods_index
    /\ labels_next' = m.labels_next
    /\ last_bitrate_status' = m.last_bitrate_status
    /\ startup' = m.startup
    /\ command_countdown' = m.command_countdown

\* The packet is counted if its PID is monitored.
Counted(m, kind) ==
    IF kind \in MonitoredPids
    THEN [m EXCEPT !.periods[m.periods_index].packets = @ + 1,
                   !.periods[m.periods_index].non_null = IF kind # "null" THEN @ + 1 ELSE @]
    ELSE m

\* processPacket on a packet of the given kind; returns TSP_OK.
ProcessPacket(kind, since_last_second) ==
    LET c == CheckTime(Counted(Work, kind), periodic_command, since_last_second)
    IN  /\ periods[periods_index].packets < MaxPerPeriod
        /\ SetWork([c.work EXCEPT !.labels_next = {}])
        /\ computation' = c.computation
        /\ applied' = [go |-> c.work.labels_next,
                       state |-> StateLabels(c.work.last_bitrate_status),
                       status |-> "TSP_OK"]
        /\ UNCHANGED periodic_command

\* handlePacketTimeout; returns true.
HandlePacketTimeout(since_last_second) ==
    LET c == CheckTime(Work, periodic_command, since_last_second)
    IN  /\ SetWork(c.work)
        /\ computation' = c.computation
        /\ UNCHANGED <<applied, periodic_command>>

\* getOptions and start, at a restart of the plugin.
MonitorStart(periodic) ==
    /\ SetWork(Started(periodic))
    /\ periodic_command' = periodic
    /\ computation' = NoComputation
    /\ UNCHANGED applied

notmonitor == <<ring, tsp_timeout, pc, min_req, ret, hist, rstate, locks, uid, lcn_store,
                statements, others>>

\* The plugin in a running ring: packets of any PID and packet timeouts at
\* any time, restarts. The computations are not recorded.
MonitorNext ==
    \/ \E kind \in PacketKinds : \E e \in Elapsed :
          ProcessPacket(kind, e) /\ UNCHANGED <<computed, notmonitor>>
    \/ \E e \in Elapsed : HandlePacketTimeout(e) /\ UNCHANGED <<computed, notmonitor>>
    \/ \E periodic \in PeriodicCommands :
          MonitorStart(periodic) /\ UNCHANGED <<computed, notmonitor>>

MonitorSpec == Init /\ [][MonitorNext]_vars

----------------------------------------------------------------------------
\* The bitrate monitor with any accepted --time-interval.

\* --time-interval takes any 16-bit unsigned value; the values up to
\* WindowSize are taken here.
TimeIntervals == 0 .. WindowSize

\* The working data after start() with --time-interval window_size:
\* _periods.resize(_window_size), every period cleared.
StartedWindow(window_size, periodic) ==
    [Started(periodic) EXCEPT
        !.periods = [i \in 0 .. (window_size - 1) |-> ClearPeriod]]

\* The undefined operations of processPacket, on a packet of the given kind,
\* and of checkTime on the working data m: _periods[_periods_index] when the
\* index is not one of the vector, % _periods.size() when the vector is empty.
Undefined(m, kind, since_last_second) ==
    (IF m.periods_index \notin DOMAIN m.periods
        /\ (kind \in MonitoredPids \/ since_last_second >= NanoSecPerSec)
     THEN {"out_of_bounds"} ELSE {})
    \cup
    (IF Size(m.periods) = 0 /\ since_last_second >= NanoSecPerSec
     THEN {"remainder_by_zero"} ELSE {})

\* checkTime when the index is out of the vector and the program goes on:
\* the accesses to the period fall out of the vector and the remainder by
\* zero gives r.
CheckTimeOut(m, periodic, since_last_second, r) ==
    IF since_last_second >= NanoSecPerSec
    THEN LET c == IF ~m.startup THEN ComputeBitrate(m, periodic)
                  ELSE [work |-> m, computation |-> NoComputation]
             index == IF Size(m.periods) = 0 THEN r
                      ELSE (m.periods_index + 1) % Size(m.periods)
         IN  [work |-> [c.work EXCEPT !.periods_index = index,
                                       !.startup = IF m.startup THEN StillStartup(index)
                                                   ELSE FALSE],
              computation |-> c.computation]
    ELSE [work |-> m, computation |-> NoComputation]

\* An undefined operation ends the program, or the program goes on.
Faulted(undefined, survives) ==
    fault \cup undefined \cup (IF undefined # {} /\ ~survives THEN {"terminated"} ELSE {})

\* processPacket with any size of _periods.
IndexProcessPacket(kind, since_last_second, r, survives) ==
    /\ "terminated" \notin fault
    /\ IF periods_index \in DOMAIN periods
       THEN ProcessPacket(kind, since_last_second) /\ UNCHANGED fault
       ELSE LET c == CheckTimeOut(Work, periodic_command, since_last_second, r)
            IN  /\ fault' = Faulted(Undefined(Work, kind, since_last_second), survives)
                /\ IF "terminated" \in fault'
                   THEN UNCHANGED monitor
                   ELSE /\ SetWork([c.work EXCEPT !.labels_next = {}])
                        /\ computation' = c.computation
                        /\ applied' = [go |-> c.work.labels_next,
                                       state |-> StateLabels(c.work.last_bitrate_status),
                                       status |-> "TSP_OK"]
                        /\ UNCHANGED periodic_command

\* handlePacketTimeout with any size of _periods.
IndexPacketTimeout(since_last_second, r, survives) ==
    /\ "terminated" \notin fault
    /\ IF periods_index \in DOMAIN periods
       THEN HandlePacketTimeout(since_last_second) /\ UNCHANGED fault
       ELSE LET c == CheckTimeOut(Work, periodic_command, since_last_second, r)
            IN  /\ fault' = Faulted(Undefined(Work, "other", since_last_second), survives)
                /\ IF "terminated" \in fault'
                   THEN UNCHANGED monitor
                   ELSE /\ SetWork(c.work)
                        /\ computation' = c.computation
                        /\ UNCHANGED <<applied, periodic_command>>

\* getOptions and start with --time-interval window_size.
IndexStart(window_size, periodic) ==
    /\ "terminated" \notin fault
    /\ SetWork(StartedWindow(window_size, periodic))
    /\ periodic_command' = periodic
    /\ computation' = NoComputation
    /\ UNCHANGED <<applied, fault>>

notindex == <<ring, tsp_timeout, pc, min_req, ret, hist, rstate, locks, computed, uid,
              lcn_store, statements, srv_list>>

IndexNext ==
    \/ \E kind \in PacketKinds : \E e \in Elapsed : \E r \in TimeIntervals : \E survives \in BOOLEAN :
          IndexProcessPacket(kind, e, r, survives) /\ UNCHANGED notindex
    \/ \E e \in Elapsed : \E r \in TimeIntervals : \E survives \in BOOLEAN :
          IndexPacketTimeout(e, r, survives) /\ UNCHANGED notindex
    \/ \E window_size \in TimeIntervals : \E periodic \in PeriodicCommands :
          IndexStart(window_size, periodic) /\ UNCHANGED notindex

IndexSpec == Init /\ [][IndexNext]_vars

\* The computation of the last time check is recorded.
Recorded ==
    /\ computation'.done => Len(computed) < MaxComputations
    /\ computed' = IF computation'.done
                   THEN Append(computed, [status |-> computation'.status,
                                          alarm |-> computation'.state_change,
                                          command |-> computation'.state_change
                                                        \/ computation'.run_command])
                   ELSE computed

\* The plugin after start(), with or without --periodic-command: packets of
\* the monitored PID and packet timeouts, a time check at each second. The
\* first MaxComputations computations are recorded.
AlarmInit ==
    /\ InitState([s \in Stages |-> Infinite])
    /\ \E periodic \in PeriodicCommands : MonitorInit(periodic)
    /\ UIDInit(0)

AlarmNext ==
    \/ \E e \in {NanoSecPerSec - 1, NanoSecPerSec} :
          ProcessPacket("pid", e) /\ Recorded /\ UNCHANGED notmonitor
    \/ HandlePacketTimeout(NanoSecPerSec) /\ Recorded /\ UNCHANGED notmonitor

AlarmSpec == AlarmInit /\ [][AlarmNext]_vars

\* The duration in which one packet makes the minimum bitrate, the duration
\* in which a full window of packets makes the maximum bitrate.
AtMinimum == ((PKT_SIZE_BITS * MicroSecPerSec) \div MinBitrate) * NanoSecPerMicroSec
AtMaximum ==
    ((WindowSize * MaxPerPeriod * PKT_SIZE_BITS * MicroSecPerSec) \div MaxBitrate)
        * NanoSecPerMicroSec

\* The periods that a measurement can leave in the window: no time or less
\* than a microsecond when the clock did not advance, a second or more
\* otherwise, and the durations of the bitrates at the bounds of the range.
Periods ==
    {[duration |-> d, packets |-> n, non_null |-> k] :
        d \in {0, NanoSecPerMicroSec - 1, NanoSecPerSec, NanoSecPerSec + 1500,
               AtMinimum, AtMaximum}, n \in 0 .. MaxPerPeriod, k \in 0 .. MaxPerPeriod}

\* Period i of the window holds the measurement p, in which the packets that
\* are not null packets are among the packets. The window is measured before
\* the computation.
Measure(i, p) ==
    /\ ~computation.done
    /\ p.non_null <= p.packets
    /\ periods' = [periods EXCEPT ![i] = p]
    /\ UNCHANGED <<periods_index, labels_next, last_bitrate_status, startup,
                   periodic_command, command_countdown, computation, applied>>

\* computeBitrate on the window as it is.
Compute ==
    /\ SetWork(ComputeBitrate(Work, periodic_command).work)
    /\ computation' = ComputeBitrate(Work, periodic_command).computation
    /\ UNCHANGED <<periodic_command, applied>>

\* computeBitrate as a function of the window: any measurements, then the
\* computation.
FormulaNext ==
    \/ \E i \in 0 .. (WindowSize - 1) : \E p \in Periods :
          Measure(i, p) /\ UNCHANGED <<computed, notmonitor>>
    \/ Compute /\ UNCHANGED <<computed, notmonitor>>

\* The plugin in any status, before a computation.
FormulaInit ==
    /\ InitState([s \in Stages |-> Infinite])
    /\ UIDInit(0)
    /\ periods = Started(0).periods
    /\ periods_index = 0
    /\ labels_next = {}
    /\ last_bitrate_status \in {"LOWER", "IN_RANGE", "GREATER"}
    /\ startup = FALSE
    /\ command_countdown = 0
    /\ periodic_command = 0
    /\ computation = NoComputation
    /\ applied = NoLabels
    /\ computed = << >>

FormulaSpec == FormulaInit /\ [][FormulaNext]_vars

----------------------------------------------------------------------------
\* UID: the generator of unique identifiers, a singleton. newUID locks the
\* mutex, reads _next_uid, increments it and returns the value read.

\* The values of the counter.
UidValues == 0 .. (2 ^ UidBits - 1)

\* The calls of newUID that have started.
Requested == Len(issued) + Cardinality({c \in Callers : uid_at[c] # "idle"})

\* Faulty variant: newUID does not lock the mutex.
NewUIDLockNone(c) ==
    /\ uid_at[c] = "idle"
    /\ Requested <= 2 ^ UidBits
    /\ uid_at' = [uid_at EXCEPT ![c] = "locked"]
    /\ UNCHANGED <<next_uid, uid_mutex, uid_read, issued>>

\* std::lock_guard on _mutex.
NewUIDLock(c) ==
    /\ uid_at[c] = "idle"
    /\ Requested <= 2 ^ UidBits
    /\ uid_mutex = Free
    /\ uid_mutex' = c
    /\ uid_at' = [uid_at EXCEPT ![c] = "locked"]
    /\ UNCHANGED <<next_uid, uid_read, issued>>

\* _next_uid++, the read.
NewUIDRead(c) ==
    /\ uid_at[c] = "locked"
    /\ uid_read' = [uid_read EXCEPT ![c] = next_uid]
    /\ uid_at' = [uid_at EXCEPT ![c] = "read"]
    /\ UNCHANGED <<next_uid, uid_mutex, issued>>

\* _next_uid++, the write on 64 bits (UidBits here), and the return of the
\* value read; the lock goes out of scope.
NewUIDReturn(c) ==
    /\ uid_at[c] = "read"
    /\ next_uid' = (uid_read[c] + 1) % (2 ^ UidBits)
    /\ issued' = Append(issued, [caller |-> c, value |-> uid_read[c]])
    /\ uid_mutex' = IF uid_mutex = c THEN Free ELSE uid_mutex
    /\ uid_at' = [uid_at EXCEPT ![c] = "idle"]
    /\ UNCHANGED uid_read

notuid == <<ring, tsp_timeout, pc, min_req, ret, hist, rstate, locks, monitor, computed, lcn_store,
            statements, others>>

\* Threads that request UID's, one more than the counter has values.
UIDInitial ==
    /\ InitState([s \in Stages |-> Infinite])
    /\ MonitorInit(0)
    /\ \E seed \in UidValues : UIDInit(seed)

UIDNext ==
    \E c \in Callers :
        \/ NewUIDLock(c) /\ UNCHANGED notuid
        \/ NewUIDRead(c) /\ UNCHANGED notuid
        \/ NewUIDReturn(c) /\ UNCHANGED notuid

UIDSpec == UIDInitial /\ [][UIDNext]_vars

----------------------------------------------------------------------------
\* LCN store (LogicalChannelNumbers): a multimap of LCN entries indexed by
\* service id, in which the entries of a service id keep the order of their
\* insertion.

ServiceIds == {1, 2}
TsIds == {1, 2}
ONetIds == {1, ONetPossible, ONetUnspecified}
Lcns == {5, 6}

\* The index of the first entry of the map with a key not less than srv_id,
\* Len(map) + 1 if none: lower_bound.
LowerBound(map, srv_id) ==
    1 + Cardinality({i \in 1 .. Len(map) : map[i].srv_id < srv_id})

\* The index of the first entry of the map with a key greater than srv_id.
UpperBound(map, srv_id) ==
    1 + Cardinality({i \in 1 .. Len(map) : map[i].srv_id <= srv_id})

\* The indexes of the entries of srv_id.
EqualRange(map, srv_id) == LowerBound(map, srv_id) .. (UpperBound(map, srv_id) - 1)

RECURSIVE FindFrom(_, _, _, _, _, _)
\* The loop of findLCN from index it, result being the possible match so far;
\* 0 stands for _lcn_map.end().
FindFrom(map, it, srv_id, ts_id, onet_id, result) ==
    IF it > Len(map) \/ map[it].srv_id # srv_id THEN result
    ELSE IF map[it].ts_id = ts_id /\ map[it].onet_id = onet_id THEN it
    ELSE IF map[it].ts_id = ts_id /\ map[it].onet_id = ONetPossible
         THEN FindFrom(map, it + 1, srv_id, ts_id, onet_id, it)
    ELSE FindFrom(map, it + 1, srv_id, ts_id, onet_id, result)

FindLCN(map, srv_id, ts_id, onet_id) ==
    FindFrom(map, LowerBound(map, srv_id), srv_id, ts_id, onet_id, 0)

\* getLCN with three identifiers.
GetLCNOf(map, srv_id, ts_id, onet_id) ==
    IF FindLCN(map, srv_id, ts_id, onet_id) = 0 THEN LcnNotFound
    ELSE map[FindLCN(map, srv_id, ts_id, onet_id)].lcn

\* std::multimap::insert: after the entries of the same key.
Inserted(map, e) ==
    SubSeq(map, 1, UpperBound(map, e.srv_id) - 1) \o <<e>>
        \o SubSeq(map, UpperBound(map, e.srv_id), Len(map))

\* addLCN: the entry of the same three identifiers is updated, a new entry
\* is inserted if there is none.
AddLCN(lcn, srv_id, ts_id, onet_id) ==
    LET similar == {i \in EqualRange(lcn_map, srv_id) :
                       lcn_map[i].ts_id = ts_id /\ lcn_map[i].onet_id = onet_id}
    IN  /\ similar = {} => Len(lcn_map) < MaxEntries
        /\ lcn_map' =
              IF similar # {}
              THEN [lcn_map EXCEPT ![CHOOSE i \in similar : \A j \in similar : i <= j].lcn = lcn]
              ELSE Inserted(lcn_map, [srv_id |-> srv_id, lcn |-> lcn,
                                      ts_id |-> ts_id, onet_id |-> onet_id])
        /\ UNCHANGED found

\* getLCN: the store does not change.
GetLCN(srv_id, ts_id, onet_id) ==
    /\ found' = [srv_id |-> srv_id, ts_id |-> ts_id, onet_id |-> onet_id,
                 lcn |-> GetLCNOf(lcn_map, srv_id, ts_id, onet_id)]
    /\ UNCHANGED lcn_map

\* clear
ClearLCN ==
    /\ lcn_map' = << >>
    /\ UNCHANGED found

notlcn == <<ring, tsp_timeout, pc, min_req, ret, hist, rstate, locks, monitor, computed, uid,
            statements, others>>

LCNNext ==
    \/ \E lcn \in Lcns : \E srv_id \in ServiceIds : \E ts_id \in TsIds : \E onet_id \in ONetIds :
          AddLCN(lcn, srv_id, ts_id, onet_id) /\ UNCHANGED notlcn
    \/ \E srv_id \in ServiceIds : \E ts_id \in TsIds : \E onet_id \in ONetIds :
          GetLCN(srv_id, ts_id, onet_id) /\ UNCHANGED notlcn
    \/ ClearLCN /\ UNCHANGED notlcn

LCNSpec == Init /\ [][LCNNext]_vars

----------------------------------------------------------------------------
\* LCN store and service descriptions (ts::Service): an optional field of a
\* service is the empty set when unset, else the set of its value.

\* The value of a field that is set.
Only(field) == CHOOSE x \in field : TRUE

\* A service description with its identifiers only.
Described(srv_id, ts_id, onid) ==
    [id |-> {srv_id}, ts_id |-> {ts_id}, onid |-> onid, lcn |-> {}, hidden |-> {}]

\* addLCN with the visible flag: the entry of the same three identifiers is
\* updated, a new entry is inserted if there is none.
AddVisible(lcn, srv_id, ts_id, onet_id, visible) ==
    LET similar == {i \in EqualRange(lcn_map, srv_id) :
                       lcn_map[i].ts_id = ts_id /\ lcn_map[i].onet_id = onet_id}
        first == CHOOSE i \in similar : \A j \in similar : i <= j
    IN  /\ similar = {} => Len(lcn_map) < MaxEntries
        /\ lcn_map' =
              IF similar # {}
              THEN [lcn_map EXCEPT ![first].lcn = lcn, ![first].visible = visible]
              ELSE Inserted(lcn_map, [srv_id |-> srv_id, lcn |-> lcn, ts_id |-> ts_id,
                                      onet_id |-> onet_id, visible |-> visible])
        /\ UNCHANGED <<found, srv_list>>

\* Faulty variant: updateService sets the hidden flag as updateServices does.
HiddenByServiceNegated(visible) == ~visible

\* The hidden flag that updateService sets from the visible flag of the LCN.
HiddenByService(visible) == visible

\* The hidden flag that updateServices sets from the visible flag of the LCN.
HiddenByServices(visible) == ~visible

\* updateService on the description srv: the description and the result.
UpdatedService(map, srv, replace) ==
    IF srv.id # {} /\ srv.ts_id # {} /\ (replace \/ srv.lcn = {})
    THEN LET onid == IF srv.onid # {} THEN Only(srv.onid) ELSE ONetUnspecified
             it == FindLCN(map, Only(srv.id), Only(srv.ts_id), onid)
         IN  IF it # 0
             THEN [srv |-> [srv EXCEPT !.lcn = {map[it].lcn},
                                       !.hidden = {HiddenByService(map[it].visible)}],
                   result |-> TRUE]
             ELSE [srv |-> srv, result |-> FALSE]
    ELSE [srv |-> srv, result |-> FALSE]

\* updateServices: the description srv matches the LCN entry e.
Matches(e, srv) ==
    /\ srv.id = {e.srv_id}
    /\ srv.ts_id = {e.ts_id}
    /\ (e.onet_id = ONetUnspecified \/ srv.onid = {} \/ srv.onid = {e.onet_id})

\* updateServices: the LCN entry e updates the description srv if it matches.
UpdatedBy(e, srv) ==
    IF Matches(e, srv)
    THEN [srv EXCEPT !.lcn = {e.lcn},
                     !.hidden = IF @ = {} THEN {HiddenByServices(e.visible)} ELSE @]
    ELSE srv

RECURSIVE UpdateFrom(_, _, _)
\* updateServices: the loop on the copy of the map from index it; acc is the
\* list of services, the entries that remain in the copy and the count.
UpdateFrom(map, it, acc) ==
    IF it > Len(map) THEN acc
    ELSE LET e == map[it]
             matching == {i \in 1 .. Len(acc.list) : Matches(e, acc.list[i])}
         IN  UpdateFrom(map, it + 1,
                 [list |-> [i \in 1 .. Len(acc.list) |-> UpdatedBy(e, acc.list[i])],
                  lcns |-> IF matching # {} THEN acc.lcns ELSE Append(acc.lcns, e),
                  count |-> acc.count
                              + Cardinality({i \in matching : acc.list[i].lcn # {e.lcn}})])

\* updateServices: the description added for the LCN entry e.
AddedService(e) ==
    [id |-> {e.srv_id}, ts_id |-> {e.ts_id},
     onid |-> IF e.onet_id # ONetUnspecified THEN {e.onet_id} ELSE {},
     lcn |-> {e.lcn}, hidden |-> {}]

\* updateServices on the list: the list and the result.
UpdatedServices(map, list, replace, add) ==
    LET u == UpdateFrom(map, 1, [list |-> list, lcns |-> << >>, count |-> 0])
    IN  IF add
        THEN [list |-> u.list \o [i \in 1 .. Len(u.lcns) |-> AddedService(u.lcns[i])],
              result |-> u.count + Len(u.lcns)]
        ELSE [list |-> u.list, result |-> u.count]

\* The caller describes one service, with or without original network id.
NewService(srv_id, ts_id, onid) ==
    /\ srv_list' = <<Described(srv_id, ts_id, onid)>>
    /\ UNCHANGED lcn_store

\* updateService on the service i of the list of the caller.
UpdateService(i, replace) ==
    /\ i \in 1 .. Len(srv_list)
    /\ srv_list' = [srv_list EXCEPT ![i] = UpdatedService(lcn_map, srv_list[i], replace).srv]
    /\ UNCHANGED lcn_store

\* updateServices on the list of the caller.
UpdateServices(replace, add) ==
    /\ srv_list # << >>
    /\ srv_list' = UpdatedServices(lcn_map, srv_list, replace, add).list
    /\ UNCHANGED lcn_store

\* The services described and the logical channel numbers given to them.
DescribedIds == {1}
GivenLcns == {5}

notservices == <<ring, tsp_timeout, pc, min_req, ret, hist, rstate, locks, monitor, computed,
                 uid, statements, fault>>

ServicesNext ==
    \/ \E lcn \in GivenLcns : \E srv_id \in DescribedIds : \E ts_id \in TsIds :
          \E onet_id \in ONetIds : \E visible \in BOOLEAN :
             AddVisible(lcn, srv_id, ts_id, onet_id, visible) /\ UNCHANGED notservices
    \/ \E srv_id \in DescribedIds : \E ts_id \in TsIds :
          \E onid \in {{}} \cup {{o} : o \in ONetIds \ {ONetUnspecified}} :
             NewService(srv_id, ts_id, onid) /\ UNCHANGED notservices
    \/ \E i \in 1 .. (MaxEntries + 1) : \E replace \in BOOLEAN :
          UpdateService(i, replace) /\ UNCHANGED notservices
    \/ \E replace \in BOOLEAN : \E add \in BOOLEAN :
          UpdateServices(replace, add) /\ UNCHANGED notservices

ServicesSpec == Init /\ [][ServicesNext]_vars

----------------------------------------------------------------------------
\* Properties of the ring.

RECURSIVE SumCnt(_)
SumCnt(S) == IF S = {} THEN 0
             ELSE LET x == CHOOSE x \in S : TRUE IN pkt_cnt[x] + SumCnt(S \ {x})

\* The slots of the window of a stage.
Window(s) == Slots(pkt_first[s], pkt_cnt[s])

\* The slots of the slice a stage got from waitWork and has not passed yet.
Held(s) == IF pc[s] \in {"ready", "working"} THEN Slots(ret[s].first, ret[s].cnt) ELSE {}

\* C1: at every instant the packet counts of all stages add up to the size
\* of the buffer, whatever passPackets, setAbort and restart have done.
C1_CountConservation == SumCnt(Stages) = BufCount

\* Packets have gone through the ring to the output while the input still
\* owns slots, after an abort request and a completed restart.
C1_Witness ==
    /\ pkt_cnt[OUTPUT] > 0
    /\ pkt_cnt[INPUT] > 0
    /\ pkt_first[INPUT] > 0
    /\ \E s \in Stages : tsp_aborting[s]
    /\ Len(rd) > 0 /\ rd[1].completed

\* C2 as stated: the window of every stage ends where the window of its
\* successor in the ring begins, modulo the size of the buffer.
C2_AsStated ==
    \A s \in Stages : (pkt_first[s] + pkt_cnt[s]) % BufCount = pkt_first[ringNext(s)]

\* C2: the window of the successor of every stage ends where the window of
\* the stage begins, modulo the size of the buffer: a stage fills or frees
\* slots ahead of its successor, and passPackets moves the start of its
\* window by what it adds at the end of the successor's.
C2_Contiguity ==
    \A s \in Stages :
        (pkt_first[ringNext(s)] + pkt_cnt[ringNext(s)]) % BufCount = pkt_first[s]

\* Windows have moved around the buffer: every stage has passed packets and
\* the input window starts past slot 0 and wraps over the end of the buffer.
C2_Witness ==
    /\ pkt_first[INPUT] > 0
    /\ pkt_first[INPUT] + pkt_cnt[INPUT] > BufCount

\* C3: the slice a stage works on starts at its window and lies inside it,
\* and no slot is in the slices of two stages.
C3_ExclusiveSlices ==
    /\ \A s \in Stages :
          pc[s] \in {"ready", "working"} =>
             /\ ret[s].first = pkt_first[s]
             /\ ret[s].cnt <= pkt_cnt[s]
             /\ Held(s) \subseteq Window(s)
    /\ \A s, t \in Stages : s # t => Held(s) \cap Held(t) = {}

\* Two stages work on non-empty slices at the same time, after the windows
\* have moved from their initial position.
C3_Witness ==
    \E s, t \in Stages :
        /\ s # t
        /\ pc[s] = "working" /\ ret[s].cnt > 0 /\ ret[s].first > 0
        /\ pc[t] = "working" /\ ret[t].cnt > 0

\* C4: once the end-of-input flag of a stage is set, no step clears it.
C4_InputEndMonotonic == [][\A s \in Stages : input_end[s] => input_end'[s]]_vars

\* A stage with end of input set has got a partial slice from waitWork,
\* reported without end of input.
C4_Witness ==
    \E s \in Stages :
        /\ input_end[s]
        /\ pc[s] = "working"
        /\ ret[s].cnt < pkt_cnt[s]
        /\ ~ret[s].input_end

\* C5: once the aborting flag of a stage is set, no step clears it, restart
\* included.
C5_AbortingMonotonic == [][\A s \in Stages : tsp_aborting[s] => tsp_aborting'[s]]_vars

\* An aborting stage is still running, with a restart to process.
C5_Witness ==
    \E s \in Stages :
        /\ tsp_aborting[s]
        /\ pc[s] = "ready"
        /\ restart[s] /\ restart_data[s] # 0

----------------------------------------------------------------------------
\* Properties of the stage loops.

AllDone == \A s \in Stages : pc[s] = "done"

NoAbort == \A s \in Stages : ~tsp_aborting[s]

\* The stages upstream of stage s, from its predecessor back to the input.
Upstream(s) == {t \in Stages : t < s}

\* Stage t has left its loop on an abort, or after it signalled the end of
\* input to its successor.
Left(t) == pc[t] = "done" /\ (tsp_aborting[t] \/ input_end[ringNext(t)])

\* C6: the packets sent by the output plugin are the first packets written
\* by the input plugin, in the order they were written.
C6_OrderPreserved ==
    /\ Len(out) <= written
    /\ \A i \in 1 .. Len(out) : out[i] = i

\* More packets than the buffer holds went through the ring to the output.
C6_Witness == Len(out) = MaxPackets /\ MaxPackets > BufCount

\* C7: without abort, a stage other than the input leaves its loop with an
\* empty window, the output has sent every packet the input wrote when all
\* loops are left, and all loops are eventually left.
C7_DrainSafety ==
    /\ [](\A s \in Stages \ {INPUT} : (pc[s] = "done" /\ NoAbort) => pkt_cnt[s] = 0)
    /\ []((AllDone /\ NoAbort) => (Len(out) = written /\ pkt_cnt[INPUT] = BufCount))
    /\ <>(AllDone \/ ~NoAbort)

\* The input wrote MaxPackets packets then signalled the end of input, every
\* stage left its loop without abort and the output sent them all.
C7_Witness ==
    /\ AllDone /\ NoAbort
    /\ written = MaxPackets /\ Len(out) = MaxPackets

C9_AsStated ==
    (/\ AllDone
     /\ tsp_aborting[OUTPUT]
     /\ abort_calls = {}
     /\ \A t \in Stages : tsp_timeout[t] = Infinite)
        => \A t \in Upstream(OUTPUT) : tsp_aborting[t]

\* C9: no stage stays blocked in waitWork behind an aborting successor, and
\* once the output is aborting every upstream stage whose loop is still
\* running eventually leaves its loop, marked aborting unless it left by
\* signalling the end of input, after which the input writes no packet.
C9_BackwardAbort ==
    /\ [](\A t \in Stages : pc[t] = "waiting" => ~tsp_aborting[ringNext(t)])
    /\ \A t \in Upstream(OUTPUT) : (tsp_aborting[OUTPUT] /\ pc[t] # "done") ~> Left(t)
    /\ [][pc[INPUT] = "done" => written' = written]_vars

\* The output aborted by its own passPackets, without setAbort(), and the
\* abort went back to the input, which left its loop before the end of input.
C9_Witness ==
    /\ abort_calls = {}
    /\ tsp_aborting[OUTPUT]
    /\ \A t \in Upstream(OUTPUT) : pc[t] = "done" /\ tsp_aborting[t]
    /\ \A t \in Stages : tsp_timeout[t] = Infinite
    /\ ~input_end[ringNext(INPUT)]

\* Stage s is blocked in waitWork with an empty window, asking for at least
\* one packet, with no end of input and no aborting successor.
Blocked(s) ==
    /\ pc[s] \in {"waiting", "woken"}
    /\ min_req[s] >= 1
    /\ pkt_cnt[s] = 0
    /\ ~input_end[s]
    /\ ~tsp_aborting[ringNext(s)]

InWaitWork(s) == pc[s] \in {"waiting", "woken"}

\* waitWork has returned to stage s on a timeout, with no packet.
TimedOut(s) == pc[s] = "ready" /\ ret[s].timeout /\ ret[s].cnt = 0

\* C10 as stated: while the window of the input is empty, the input stays
\* blocked in waitWork.
C10_AsStated == [][Blocked(INPUT) => InWaitWork(INPUT)']_vars

\* C10: while the window of the input is empty the input stays blocked in
\* waitWork unless its packet timeout elapses and the plugin declares it
\* fatal, in which case waitWork returns a timeout with no packet; waitWork
\* returns no packet to the input on nothing but a timeout, the end of input
\* or an abort; the window of the input grows only by what the window of the
\* output loses in the same step.
C10_Backpressure ==
    /\ [][Blocked(INPUT) => (InWaitWork(INPUT)' \/ TimedOut(INPUT)')]_vars
    /\ []((pc[INPUT] = "ready" /\ ret[INPUT].cnt = 0)
             => (ret[INPUT].timeout \/ ret[INPUT].aborted \/ input_end[INPUT]))
    /\ [][pkt_cnt'[INPUT] > pkt_cnt[INPUT]
             => pkt_cnt'[INPUT] - pkt_cnt[INPUT] = pkt_cnt[OUTPUT] - pkt_cnt'[OUTPUT]]_vars

\* The input has filled the buffer and is blocked on an empty window while
\* the output holds packets it has not released.
C10_Witness ==
    /\ Blocked(INPUT)
    /\ written >= BufCount
    /\ pkt_cnt[OUTPUT] > 0

----------------------------------------------------------------------------
\* Properties of the methods, for any arguments.

CountArgs == 0 .. BufCount

\* C11 as stated: a passPackets call of the output stage leaves the
\* end-of-input flag of the input stage unchanged, whatever input_end
\* argument the output passes.
C11_AsStated ==
    [][\A count \in CountArgs : \A br \in BitrateArgs : \A ie, ab \in BOOLEAN :
          PassPackets(OUTPUT, count, br, ie, ab) => input_end'[INPUT] = input_end[INPUT]]_vars

\* C11: passPackets has no exception for the output stage: a call of the
\* output stage sets the end-of-input flag of the input stage when its
\* input_end argument is true, and leaves it unchanged when it is false.
C11_OutputEdgeInputEnd ==
    [][\A count \in CountArgs : \A br \in BitrateArgs : \A ie, ab \in BOOLEAN :
          PassPackets(OUTPUT, count, br, ie, ab)
             => input_end'[INPUT] = (input_end[INPUT] \/ ie)]_vars

\* The output stage has called passPackets with input_end true and the input
\* stage, still running, has its end-of-input flag set.
C11_Witness == input_end[INPUT] /\ pc[OUTPUT] = "done" /\ pc[INPUT] # "done"

\* C12: the output stage never takes the abort of the input stage: its
\* waitWork returns aborted false, its passPackets marks it aborting exactly
\* when its aborted argument is true and returns true exactly when both its
\* arguments are false, and it becomes aborting by nothing but its own
\* aborted argument or setAbort().
C12_OutputEdgeAborting ==
    /\ [](pc[OUTPUT] \in {"ready", "working"} => ~ret[OUTPUT].aborted)
    /\ [][\A count \in CountArgs : \A br \in BitrateArgs : \A ie, ab \in BOOLEAN :
             PassPackets(OUTPUT, count, br, ie, ab)
                => /\ tsp_aborting'[OUTPUT] = (tsp_aborting[OUTPUT] \/ ab)
                   /\ (pc'[OUTPUT] = "idle") = (~ie /\ ~ab)]_vars
    /\ [][(~tsp_aborting[OUTPUT] /\ tsp_aborting'[OUTPUT])
             => \/ SetAbort(OUTPUT)
                \/ \E count \in CountArgs : \E br \in BitrateArgs : \E ie \in BOOLEAN :
                      PassPackets(OUTPUT, count, br, ie, TRUE)]_vars

\* The input stage is aborting; the output stage, not aborting, got no packet
\* and no end of input from waitWork, and keeps running.
C12_Witness ==
    /\ tsp_aborting[INPUT]
    /\ ~tsp_aborting[OUTPUT]
    /\ pc[OUTPUT] = "working"
    /\ ret[OUTPUT].cnt = 0 /\ ~ret[OUTPUT].input_end /\ ~ret[OUTPUT].aborted
    /\ pkt_first[OUTPUT] > 0

\* Stage s has at least m packets, or the end of input, or an aborting
\* successor.
WorkOrEnd(s, m) == pkt_cnt[s] >= m \/ input_end[s] \/ tsp_aborting[ringNext(s)]

\* C13: a call of waitWork, and a stage woken in waitWork by a notification
\* or spuriously, returns without timeout when the window holds the
\* requested minimum limited to the buffer size, or the end of input is set,
\* or the successor is aborting; in any other state it waits (again).
C13_WaitWorkReturn ==
    /\ [][\A s \in Stages : \A m \in MinArgs :
             WaitWork(s, m)
                => IF WorkOrEnd(s, Min(m, BufCount))
                   THEN pc'[s] = "ready" /\ ~ret'[s].timeout
                   ELSE pc'[s] = "waiting" /\ min_req'[s] = Min(m, BufCount)]_vars
    /\ [][\A s \in Stages :
             WaitWorkWake(s)
                => IF WorkOrEnd(s, min_req[s])
                   THEN pc'[s] = "ready" /\ ~ret'[s].timeout
                   ELSE pc'[s] = "waiting" /\ min_req'[s] = min_req[s]]_vars

\* A stage that asked for more than it has, up to the whole buffer, waits
\* with packets in its window.
C13_Witness ==
    \E s \in Stages :
        /\ pc[s] = "waiting"
        /\ min_req[s] = BufCount
        /\ pkt_cnt[s] > 0

\* The contiguous head of the window of stage s: its packets up to the end
\* of the buffer.
WindowHead(s) == Min(pkt_cnt[s], BufCount - pkt_first[s])

\* The rule of the specification: the contiguous head if it alone satisfies
\* the minimum, else the full count.
HeadIfEnough(s, m) == IF WindowHead(s) >= m THEN WindowHead(s) ELSE pkt_cnt[s]

\* The slice of stage s is the one both rules give for the minimum m.
SliceRule(s, m) ==
    /\ ret'[s].first = pkt_first[s]
    /\ ret'[s].cnt = (IF pkt_first[s] + m <= BufCount THEN WindowHead(s) ELSE pkt_cnt[s])
    /\ ret'[s].cnt = HeadIfEnough(s, m)
    /\ pkt_first[s] + m <= BufCount => ret'[s].first + ret'[s].cnt <= BufCount

\* C15: without timeout waitWork returns the contiguous head of the window
\* when first + min_pkt_cnt <= B, a slice that does not cross the end of the
\* buffer, and the full count otherwise; this is the contiguous head if it
\* alone satisfies min_pkt_cnt, else the full count.
C15_SliceRule ==
    /\ [][\A s \in Stages : \A m \in MinArgs :
             (WaitWork(s, m) /\ pc'[s] = "ready")
                => SliceRule(s, m) /\ SliceRule(s, Min(m, BufCount))]_vars
    /\ [][\A s \in Stages :
             (WaitWorkWake(s) /\ pc'[s] = "ready") => SliceRule(s, min_req[s])]_vars

\* waitWork returned the contiguous head of a window that holds the whole
\* buffer and wraps.
C15_Witness ==
    \E s \in Stages :
        /\ pc[s] = "ready"
        /\ pkt_cnt[s] = BufCount /\ pkt_first[s] > 0
        /\ ret[s].cnt = BufCount - pkt_first[s]

\* C16: passPackets of stage s returns true exactly when its input_end
\* argument is false, its aborted argument is false and, unless s is the
\* output stage, the next stage is not aborting.
C16_PassResult ==
    [][\A s \in Stages : \A count \in CountArgs : \A br \in BitrateArgs : \A ie, ab \in BOOLEAN :
          PassPackets(s, count, br, ie, ab)
             => /\ pc'[s] \in {"idle", "done"}
                /\ (pc'[s] = "idle")
                      = (~ie /\ ~ab /\ (s = OUTPUT \/ ~tsp_aborting[ringNext(s)]))]_vars

\* passPackets returned false to a stage that passed no end of input, behind
\* an aborting successor.
C16_Witness ==
    \E s \in Stages \ {OUTPUT} :
        /\ pc[s] = "done"
        /\ tsp_aborting[ringNext(s)]
        /\ ~input_end[ringNext(s)]

\* The window and the flags of stage t.
Fields(t) == <<pkt_first[t], pkt_cnt[t], input_end[t], tsp_aborting[t], bitrate[t]>>

\* C17: passPackets of stage s moves count packets from the start of its
\* window to the end of the window of the next stage and changes nothing but
\* its first, count and aborting flag and the count, bitrate and
\* end-of-input flag of the next stage.
C17_PassFrame ==
    [][\A s \in Stages : \A count \in CountArgs : \A br \in BitrateArgs : \A ie, ab \in BOOLEAN :
          PassPackets(s, count, br, ie, ab)
             => /\ pkt_first'[s] = (pkt_first[s] + count) % BufCount
                /\ pkt_cnt'[s] = pkt_cnt[s] - count
                /\ pkt_cnt'[ringNext(s)] = pkt_cnt[ringNext(s)] + count
                /\ pkt_first'[ringNext(s)] = pkt_first[ringNext(s)]
                /\ tsp_aborting'[ringNext(s)] = tsp_aborting[ringNext(s)]
                /\ input_end'[s] = input_end[s]
                /\ bitrate'[s] = bitrate[s]
                /\ \A t \in Stages \ {s, ringNext(s)} : Fields(t)' = Fields(t)
                /\ UNCHANGED <<tsp_timeout, restart, restart_data, rd, plugin>>]_vars

\* A stage has passed packets, the end of input and an abort: it is aborting,
\* the next stage has the packets and the end of input and is not aborting.
C17_Witness ==
    \E s \in Stages :
        /\ pc[s] = "done"
        /\ tsp_aborting[s] /\ ~tsp_aborting[ringNext(s)]
        /\ input_end[ringNext(s)] /\ ~input_end[s]
        /\ pkt_cnt[ringNext(s)] > 0
        /\ pkt_first[s] > 0

----------------------------------------------------------------------------
\* Properties of waitWork with packet timeouts.

\* C14 as stated: when the wait times out and handlePacketTimeout() returns
\* true, waitWork does not return and the stage waits again.
C14_AsStated == [][\A s \in Stages : PacketTimeout(s, TRUE) => pc'[s] = "waiting"]_vars

\* C14: when the wait times out and handlePacketTimeout() returns true the
\* wait condition is tested again: the stage waits again if it has neither
\* the requested packets nor the end of input nor an aborting successor,
\* and waitWork returns without timeout otherwise; when the handler returns
\* false waitWork returns a timeout and no packet, the window unchanged;
\* with an infinite packet timeout waitWork never returns a timeout.
C14_PacketTimeout ==
    /\ [][\A s \in Stages :
             PacketTimeout(s, TRUE)
                => IF WorkOrEnd(s, min_req[s])
                   THEN pc'[s] = "ready" /\ ~ret'[s].timeout
                   ELSE pc'[s] = "waiting"]_vars
    /\ [][\A s \in Stages :
             PacketTimeout(s, FALSE)
                => /\ pc'[s] = "ready"
                   /\ ret'[s].timeout /\ ret'[s].cnt = 0
                   /\ pkt_first'[s] = pkt_first[s] /\ pkt_cnt'[s] = pkt_cnt[s]]_vars
    /\ [](\A s \in Stages :
             (tsp_timeout[s] = Infinite /\ pc[s] \in {"ready", "working"}) => ~ret[s].timeout)

\* waitWork returned a timeout and no packet to a stage that has packets,
\* fewer than it asked for.
C14_Witness ==
    \E s \in Stages :
        /\ pc[s] = "ready"
        /\ ret[s].timeout /\ ret[s].cnt = 0
        /\ pkt_cnt[s] > 0

\* C18: setAbort() on stage s sets the aborting flag of s and notifies the
\* previous stage: a previous stage blocked in wait is woken up, no other
\* thread moves, and the window, the end of input and the bitrate of every
\* stage and the aborting flag of every other stage are unchanged.
C18_SetAbortFrame ==
    [][\A s \in Stages :
          SetAbort(s)
             => /\ tsp_aborting'[s]
                /\ \A t \in Stages \ {s} : tsp_aborting'[t] = tsp_aborting[t]
                /\ \A t \in Stages :
                      <<pkt_first[t], pkt_cnt[t], input_end[t], bitrate[t]>>'
                         = <<pkt_first[t], pkt_cnt[t], input_end[t], bitrate[t]>>
                /\ pc'[ringPrevious(s)]
                      = (IF pc[ringPrevious(s)] = "waiting" THEN "woken" ELSE pc[ringPrevious(s)])
                /\ \A t \in Stages \ {ringPrevious(s)} : pc'[t] = pc[t]
                /\ UNCHANGED <<tsp_timeout, min_req, ret, restart, restart_data, rd, plugin>>]_vars

\* setAbort() was called on a stage with packets in its window; the previous
\* stage, with an empty window and no end of input, was woken up.
C18_Witness ==
    \E s \in abort_calls :
        /\ pkt_cnt[s] > 0
        /\ pc[ringPrevious(s)] = "woken"
        /\ pkt_cnt[ringPrevious(s)] = 0
        /\ ~input_end[ringPrevious(s)]
        /\ ringPrevious(s) \notin abort_calls

----------------------------------------------------------------------------
\* Properties of restart.

Records == 1 .. Len(rd)

\* C19: restart() on a stage with a pending record completes that record
\* with an error and installs the new one; afterwards no stage holds the old
\* record and it never changes again; processPendingRestart completes the
\* record the stage holds, without error, and touches no other record; a
\* record that is not completed is held by a stage.
C19_Superseded ==
    /\ [][\A s \in Stages :
            /\ restart_data[s] # 0 /\ Len(rd') > 0 /\ (\E r \in {rd'[Len(rd')]} : Restart(s, r))
                  => /\ rd'[restart_data[s]].completed /\ rd'[restart_data[s]].error
                     /\ restart_data'[s] = Len(rd) + 1 /\ restart'[s]
                     /\ ~rd'[Len(rd) + 1].completed /\ ~rd'[Len(rd) + 1].error
                     /\ \A i \in Records \ {restart_data[s]} : rd'[i] = rd[i]
            /\ ProcessPendingRestart(s) /\ PendingRestart(s)
                  => /\ rd'[restart_data[s]].completed /\ ~rd'[restart_data[s]].error
                     /\ \A i \in Records \ {restart_data[s]} : rd'[i] = rd[i]
                     /\ ~PendingRestart(s)']_vars
    /\ [][\A i \in Records : rd[i].error => rd'[i] = rd[i]]_vars
    /\ [](\A i \in Records :
            /\ rd[i].error => rd[i].completed
            /\ rd[i].completed => \A s \in Stages : restart_data[s] # i
            /\ ~rd[i].completed => \E s \in Stages : restart_data[s] = i /\ restart[s])

\* A record was superseded and the record that replaced it was serviced.
C19_Witness ==
    \E i, j \in Records :
        /\ i < j
        /\ rd[i].completed /\ rd[i].error
        /\ rd[j].completed /\ ~rd[j].error
        /\ \A s \in Stages : ~PendingRestart(s)

\* Record i is pending on stage s.
Holds(s, i) == restart[s] /\ restart_data[s] = i

\* The supervisor of record i has returned from restart().
Returned(i) == i \in Records /\ rd[i].completed

\* Record i is pending on a stage of a running ring whose worker is blocked in
\* waitWork with an infinite packet timeout.
RestartBlocked(i) ==
    /\ \A t \in Stages : pc[t] # "done"
    /\ \E s \in Stages :
          Holds(s, i) /\ pc[s] \in {"waiting", "woken"} /\ tsp_timeout[s] = Infinite

\* Record i is pending on a stage whose waitWork has returned or is about to
\* return: the thread was notified and its wait condition is over.
RestartReached(i) ==
    \E s \in Stages :
        /\ Holds(s, i)
        /\ \/ pc[s] = "ready"
           \/ pc[s] = "woken" /\ ~WaitLoopCond(s, min_req[s], FALSE)

\* C20 as stated, for a worker blocked in waitWork with an infinite packet
\* timeout: every restart() eventually returns.
C20_AsStated == \A i \in 1 .. MaxRequests : RestartBlocked(i) ~> Returned(i)

\* C20: a restart() returns once waitWork of the target stage returns: a
\* pending record is eventually completed when the worker has left waitWork
\* or was notified with packets, end of input or an abort to return; a
\* worker woken up in waitWork with none of these waits again and the
\* restart stays pending.
C20_RestartLiveness ==
    /\ \A i \in 1 .. MaxRequests : RestartReached(i) ~> Returned(i)
    /\ [][\A s \in Stages :
            WaitWorkWake(s) /\ PendingRestart(s) /\ WaitLoopCond(s, min_req[s], FALSE)
               => pc'[s] = "waiting" /\ PendingRestart(s)' /\ rd' = rd]_vars

\* A restart was serviced; another one is pending on a stage that waits again
\* in waitWork.
C20_Witness ==
    \E i \in Records : \E s \in Stages :
        /\ rd[i].completed /\ ~rd[i].error
        /\ PendingRestart(s) /\ pc[s] = "waiting"
        /\ \A t \in Stages : pc[t] # "done"

----------------------------------------------------------------------------
\* Properties of restart with new arguments.

\* processPendingRestart of stage s services a restart with new arguments.
ServicesParams(s) ==
    ProcessPendingRestart(s) /\ PendingRestart(s) /\ ~rd[restart_data[s]].same_args

\* C21 as stated: when the restart fails with the new arguments, the stage
\* ends up started with its previous arguments.
C21_AsStated ==
    [][\A s \in Stages :
          ServicesParams(s) /\ rd'[restart_data[s]].warning
             => /\ rd'[restart_data[s]].completed
                /\ plugin'[s].args = plugin[s].args
                /\ plugin'[s].started]_vars

\* C21: a restart with new arguments that analyze() or getOptions() rejects,
\* or with which start() fails, puts a warning on the report of the record
\* and configures the plugin with its previous arguments again; the plugin
\* is then started if start() succeeds this time; without warning the plugin
\* is started with the new arguments; the record is completed in all cases
\* and a plugin never keeps arguments that were rejected.
C21_Fallback ==
    /\ [][\A s \in Stages :
            ServicesParams(s)
               => /\ rd'[restart_data[s]].completed
                  /\ ~Configure(rd[restart_data[s]].args) => rd'[restart_data[s]].warning
                  /\ rd'[restart_data[s]].warning => plugin'[s].args = plugin[s].args
                  /\ ~rd'[restart_data[s]].warning
                        => plugin'[s] = [args |-> rd[restart_data[s]].args, started |-> TRUE]]_vars
    /\ [](\A s \in Stages : Configure(plugin[s].args))

\* A stage was restarted with new arguments, then a restart with bad
\* arguments fell back to them.
C21_Witness ==
    /\ Len(rd) = 2
    /\ rd[1].args = "new" /\ rd[1].completed /\ ~rd[1].warning /\ ~rd[1].error
    /\ rd[2].args = "bad_options" /\ rd[2].completed /\ rd[2].warning
    /\ \E s \in Stages :
          /\ plugin[s] = [args |-> "new", started |-> TRUE]
          /\ \A t \in Stages \ {s} : plugin[t].args = InitialArgs

----------------------------------------------------------------------------
\* Properties of restart with the same arguments.

\* processPendingRestart of stage s services a restart with the same arguments.
ServicesSame(s) ==
    ProcessPendingRestart(s) /\ PendingRestart(s) /\ rd[restart_data[s]].same_args

\* A restart was serviced and every plugin is started.
Restarted ==
    /\ \E i \in Records : rd[i].completed /\ ~rd[i].error
    /\ \A s \in Stages : plugin[s].started

----------------------------------------------------------------------------
\* Properties of the mutexes.

RecordsLocked(th) == {i \in 1 .. Len(rd_mutex) : rd_mutex[i] = th}

\* The record mutex that thread th is about to lock, 0 if none.
WantedRecord(th) ==
    IF th \in StageThreads
    THEN IF thread_at[th] = "ppr_locked1" /\ PendingRestart(StageOf(th))
         THEN restart_data[StageOf(th)] ELSE 0
    ELSE IF thread_at[th] = "r_locked1" THEN restart_data[sup_target[th]]
    ELSE IF thread_at[th] \in {"r_unlocked", "cond_woken"} THEN sup_rd[th]
    ELSE 0

\* Thread th is about to lock the global mutex.
WantsGlobal(th) == thread_at[th] \in {"loop", "ww_wait", "ww_done", "ppr_done", "idle"}

\* The thread that owns the mutex thread th is blocked on, Free if th is not
\* blocked on a mutex.
WaitsFor(th) ==
    IF WantsGlobal(th) THEN global_mutex
    ELSE IF WantedRecord(th) # 0 THEN rd_mutex[WantedRecord(th)]
    ELSE Free

RECURSIVE WaitChain(_, _, _)
\* Thread th waits, through at most k owners, for a mutex that target owns.
WaitChain(th, target, k) ==
    /\ k > 0
    /\ WaitsFor(th) # Free
    /\ (WaitsFor(th) = target \/ WaitChain(WaitsFor(th), target, k - 1))

\* C23: a thread that locks the global mutex holds no mutex of a restart
\* record; no thread waits, directly or through other threads, for a mutex
\* it owns itself; a thread blocked on a condition owns no mutex.
C23_LockOrder ==
    /\ [][\A th \in Threads :
            (global_mutex' = th /\ global_mutex # th) => RecordsLocked(th) = {}]_vars
    /\ [](\A th \in Threads :
            /\ WantsGlobal(th) => RecordsLocked(th) = {}
            /\ ~WaitChain(th, th, Cardinality(Threads))
            /\ thread_at[th] \in {"cond_wait", "ww_wait"}
                  => global_mutex # th /\ RecordsLocked(th) = {})

\* The worker holds the global mutex and is blocked on the mutex of the
\* pending record, which its supervisor holds; another supervisor and
\* another stage thread are blocked on the global mutex.
C23_Witness ==
    \E th \in StageThreads : \E u, v \in Supervisors : \E other \in StageThreads \ {th} :
        /\ thread_at[th] = "ppr_locked1" /\ global_mutex = th
        /\ WaitsFor(th) = u /\ thread_at[u] = "r_locked3"
        /\ thread_at[v] = "idle"
        /\ thread_at[other] = "ppr_done"

\* The executor of thread th is in a call of its plugin: handlePacketTimeout
\* in waitWork, or stop, resetContext, analyze, getOptions, start in
\* processPendingRestart.
InPluginCall(th) == thread_at[th] \in {"ww_handler", "ppr_plugin"}

\* C24 as stated: no plugin method is called while the global mutex is held.
C24_AsStated == \A th \in StageThreads : InPluginCall(th) => global_mutex # th

\* C24: handlePacketTimeout is called by waitWork, and stop, resetContext,
\* analyze, getOptions and start by processPendingRestart, with the global
\* mutex held; as long as the call lasts, no other thread enters waitWork,
\* passPackets, processPendingRestart or restart().
C24_PluginCallsLocked ==
    /\ [](\A th \in StageThreads : InPluginCall(th) => global_mutex = th)
    /\ [](\A th \in StageThreads :
            thread_at[th] = "ppr_plugin" => RecordsLocked(th) = {restart_data[StageOf(th)]})
    /\ [][\A th \in StageThreads : \A o \in Threads \ {th} :
            (InPluginCall(th) /\ WantsGlobal(o)) => thread_at'[o] = thread_at[o]]_vars

\* A stage restarts its plugin while another stage is blocked at the entry
\* of passPackets; an earlier restart is over.
C24_Witness ==
    \E th, o \in StageThreads :
        /\ th # o
        /\ thread_at[th] = "ppr_plugin"
        /\ thread_at[o] = "ppr_done"
        /\ \E i \in 1 .. Len(rd) : rd[i].completed

----------------------------------------------------------------------------
\* Properties of the bitrate monitor.

\* The status of the computation before computation i, the one start() sets
\* when there is none.
PreviousStatus(i) == IF i = 1 THEN "IN_RANGE" ELSE computed[i - 1].status

\* The statuses of the first n computations.
Statuses(n) == [i \in 1 .. n |-> computed[i].status]

\* The computations at which a state-change alarm was raised.
Alarms == {i \in 1 .. Len(computed) : computed[i].alarm}

BelowInAboveIn ==
    <<"LOWER", "LOWER", "IN_RANGE", "IN_RANGE", "GREATER", "GREATER", "IN_RANGE">>

\* C25 as stated: with no periodic command, the computed sequence [below,
\* below, in-range, in-range, above, above, in-range] after start() raises
\* alarms at the three transitions only, the third, fifth and seventh
\* computations.
C25_AsStated ==
    (periodic_command = 0 /\ Len(computed) >= 7 /\ Statuses(7) = BelowInAboveIn)
        => Alarms \cap (1 .. 7) = {3, 5, 7}

\* C25: a state-change alarm is raised at a computation exactly when the
\* computed status differs from the status of the previous computation, the
\* first computation after start() being compared with IN_RANGE; the computed
\* sequence [below, below, in-range, in-range, above, above, in-range] raises
\* alarms at the first computation and at the three transitions.
C25_Alarms ==
    /\ \A i \in 1 .. Len(computed) :
          computed[i].alarm <=> computed[i].status # PreviousStatus(i)
    /\ (Len(computed) >= 7 /\ Statuses(7) = BelowInAboveIn)
          => Alarms \cap (1 .. 7) = {1, 3, 5, 7}

C25_Witness ==
    /\ periodic_command = 0
    /\ Len(computed) >= 7
    /\ Statuses(7) = BelowInAboveIn

\* The go-label set of a transition into a status.
Entering(status) ==
    IF status = "LOWER" THEN "go_below"
    ELSE IF status = "IN_RANGE" THEN "go_normal" ELSE "go_above"

\* The go-label set of the transition that the time check of the step detects,
\* if it detects one.
Detected ==
    IF computation'.done /\ computation'.status # last_bitrate_status
    THEN {Entering(computation'.status)}
    ELSE {}

InState(status) ==
    IF status = "LOWER" THEN "below"
    ELSE IF status = "IN_RANGE" THEN "normal" ELSE "above"

\* C27: every packet passed to processPacket receives the label set of
\* exactly one state, the status in force after the time check of the call,
\* which is the computed status when the time check computed the bitrate and
\* the status before the call otherwise; processPacket returns TSP_OK.
C27_StateLabels ==
    [][ (\E kind \in PacketKinds : \E e \in Elapsed : ProcessPacket(kind, e))
            => /\ applied'.state = {InState(last_bitrate_status')}
               /\ last_bitrate_status' =
                     IF computation'.done THEN computation'.status
                     ELSE last_bitrate_status
               /\ applied'.status = "TSP_OK" ]_vars

\* A packet whose time check changed the status to GREATER received the
\* label set of that state.
C27_Witness ==
    /\ applied.state = {"above"}
    /\ applied.go = {"go_above"}
    /\ computation.done
    /\ computation.status = "GREATER"
    /\ last_bitrate_status = "GREATER"

\* The packets, the packets that are not null packets and the nanoseconds of
\* the window.
TotalPackets == SumPeriods(periods, "packets", WindowSize)
TotalNonNull == SumPeriods(periods, "non_null", WindowSize)
TotalNano == SumPeriods(periods, "duration", WindowSize)

\* Bits per second of n packets in us microseconds, 0 when there is no
\* microsecond.
BitsPerSecond(n, us) ==
    IF us = 0 THEN 0 ELSE (n * 1504 * MicroSecPerSec) \div us

\* C28: at each computation the bitrate is the number of packets of the W
\* periods times 1504 bits, divided by the sum of the W durations taken in
\* whole microseconds and expressed in seconds; the net bitrate is the same
\* with the packets that are not null packets; both are 0 when the summed
\* duration has no whole microsecond. The divisions are integer divisions.
C28_Formula ==
    computation.done =>
        /\ computation.bitrate = BitsPerSecond(TotalPackets, TotalNano \div 1000)
        /\ computation.net_bitrate = BitsPerSecond(TotalNonNull, TotalNano \div 1000)
        /\ TotalNano \div 1000 = 0 => computation.bitrate = 0 /\ computation.net_bitrate = 0

\* A computation over a window of a second and a second and 1500 ns, with
\* three packets of which one is not a null packet: the microseconds and the
\* bitrates are rounded down.
C28_Witness ==
    /\ computation.done
    /\ TotalNano = 2 * NanoSecPerSec + 1500
    /\ TotalPackets = 3
    /\ TotalNonNull = 1
    /\ computation.bitrate = (3 * 1504 * MicroSecPerSec) \div (2 * MicroSecPerSec + 1)
    /\ computation.net_bitrate = (1504 * MicroSecPerSec) \div (2 * MicroSecPerSec + 1)

----------------------------------------------------------------------------
\* Properties of the UID generator.

\* C29: any two calls of newUID, by the same thread or by different threads,
\* return different values as long as no more values were requested than the
\* counter has; a thread reads and increments the counter with the mutex
\* held, and returns the value the counter had.
C29_Distinct ==
    /\ \A c \in Callers : uid_at[c] # "idle" => uid_mutex = c
    /\ \A c \in Callers : uid_at[c] = "read" => uid_read[c] = next_uid
    /\ Len(issued) <= 2 ^ UidBits =>
          \A i, j \in 1 .. Len(issued) : i # j => issued[i].value # issued[j].value

\* Every value of the counter was returned once, to both threads, and the
\* counter wrapped.
C29_Witness ==
    /\ Len(issued) = 2 ^ UidBits
    /\ \A c \in Callers : \E i \in 1 .. Len(issued) : issued[i].caller = c
    /\ \E i \in 1 .. (Len(issued) - 1) : issued[i + 1].value < issued[i].value

----------------------------------------------------------------------------
\* Properties of the LCN store.

\* The indexes of the entries of the store with that service id and that
\* transport stream id, whatever their original network id.
Matching(srv_id, ts_id) ==
    {i \in 1 .. Len(lcn_map) : lcn_map[i].srv_id = srv_id /\ lcn_map[i].ts_id = ts_id}

\* The first of a non-empty set of indexes.
First(indexes) == CHOOSE i \in indexes : \A j \in indexes : i <= j

\* C30 as stated: getLCN with an original network id of 0xFFFF returns the
\* LCN of the first stored entry with that service id and that transport
\* stream id, whatever original network id the entry was stored with, and
\* 0xFFFF only when the store has no entry with these two identifiers.
C30_AsStated ==
    [][ \A srv_id \in ServiceIds : \A ts_id \in TsIds :
          GetLCN(srv_id, ts_id, ONetUnspecified) =>
              found'.lcn = IF Matching(srv_id, ts_id) = {} THEN LcnNotFound
                           ELSE lcn_map[First(Matching(srv_id, ts_id))].lcn ]_vars

\* C30, what getLCN does: it returns the LCN of the entry stored with the same
\* three identifiers, 0xFFFF included, if there is one; otherwise the LCN of
\* the last entry with that service id and that transport stream id that was
\* stored with the original network id 0x0FFF, if there is one; otherwise
\* 0xFFFF.
C30_FindLCN ==
    [][ \A srv_id \in ServiceIds : \A ts_id \in TsIds : \A onet_id \in ONetIds :
          GetLCN(srv_id, ts_id, onet_id) =>
              LET exact == {i \in Matching(srv_id, ts_id) : lcn_map[i].onet_id = onet_id}
                  possible == {i \in Matching(srv_id, ts_id) : lcn_map[i].onet_id = ONetPossible}
              IN  found'.lcn = IF exact # {} THEN lcn_map[First(exact)].lcn
                               ELSE IF possible # {}
                                    THEN lcn_map[CHOOSE i \in possible : \A j \in possible : j <= i].lcn
                                    ELSE LcnNotFound ]_vars

\* getLCN with an original network id of 0xFFFF did not find the service
\* although the store has an entry with its service id and its transport
\* stream id.
C30_Witness ==
    /\ found.onet_id = ONetUnspecified
    /\ found.lcn = LcnNotFound
    /\ Matching(found.srv_id, found.ts_id) # {}
    /\ \A i \in Matching(found.srv_id, found.ts_id) : lcn_map[i].lcn # LcnNotFound

----------------------------------------------------------------------------
\* Properties of processPendingRestart, statement by statement.

\* The calls of the start attempt.
AttemptCalls ==
    {"start", "getCommandArgs", "setFlags", "analyze", "getOptions", "start_new",
     "warning", "analyze_previous", "getOptions_previous", "start_previous"}

\* The rank of a call in the order of the restart: stop, the reset of the
\* session accounting, resetContext, the redirection of the report, the
\* start attempt, the restoration of the report, the completion of the
\* record, the notification of the supervisor, the clearing of the slot.
Rank(call) ==
    IF call = "stop" THEN 1
    ELSE IF call = "restartPluginSession" THEN 2
    ELSE IF call = "resetContext" THEN 3
    ELSE IF call = "redirectReport" THEN 4
    ELSE IF call \in AttemptCalls THEN 5
    ELSE IF call = "restoreReport" THEN 6
    ELSE IF call = "completed" THEN 7
    ELSE IF call = "notify_one" THEN 8
    ELSE 9

\* Call a was made before call b in the sequence of calls c.
Before(c, a, b) ==
    \E i, j \in 1 .. Len(c) : i < j /\ c[i] = a /\ c[j] = b

Made(c, a) == \E i \in 1 .. Len(c) : c[i] = a

\* C31: processPendingRestart calls stop, the reset of the session
\* accounting, resetContext, the redirection of the report to the record,
\* the start attempt (start alone, or analyze, then getOptions, then start),
\* the restoration of the report, and only then completes the record and
\* notifies the supervisor, each once and in this order; when it returns the
\* slot of the stage is empty, its restart flag is false and the plugin
\* reports where it did before the call.
C31_Order ==
    /\ [](\A s \in Stages :
            LET c == ppr[s].calls
            IN  /\ c # << >> => Rank(c[1]) = 1
                /\ \A i \in 1 .. (Len(c) - 1) :
                      \/ Rank(c[i + 1]) = Rank(c[i]) + 1
                      \/ Rank(c[i]) = 5 /\ Rank(c[i + 1]) = 5
                /\ Made(c, "start") => \A i \in 1 .. Len(c) : Rank(c[i]) = 5 => c[i] = "start"
                /\ Made(c, "getOptions") => Before(c, "analyze", "getOptions")
                /\ Made(c, "start_new") => Before(c, "getOptions", "start_new")
                /\ Made(c, "start_previous") =>
                      /\ Before(c, "analyze_previous", "getOptions_previous")
                      /\ Before(c, "getOptions_previous", "start_previous")
                /\ report[s] # TspReport <=>
                      Made(c, "redirectReport") /\ ~Made(c, "restoreReport")
                /\ (restart_data[s] # 0 /\ rd[restart_data[s]].completed)
                      => report[s] = TspReport /\ Made(c, "restoreReport"))
    /\ [][\A s \in Stages :
            (ppr[s].at # "return" /\ ppr'[s].at = "return")
                => /\ restart_data'[s] = 0
                   /\ ~restart'[s]
                   /\ report'[s] = TspReport
                   /\ rd'[restart_data[s]].completed
                   /\ plugin'[s].started = ppr'[s].success]_vars

\* A restart with new arguments that failed and fell back to the previous
\* ones has returned.
C31_Witness ==
    \E s \in Stages :
        /\ ppr[s].at = "return"
        /\ Made(ppr[s].calls, "start_previous")
        /\ Made(ppr[s].calls, "clear")
        /\ Len(ppr[s].calls) = 16
        /\ restart_data[s] = 0
        /\ report[s] = TspReport

----------------------------------------------------------------------------
\* Properties of the ring, continued.

\* waitWork of stage s returns in the step.
WaitWorkReturns(s) == pc[s] # "ready" /\ pc'[s] = "ready"

\* C32: waitWork reports the end of input exactly when the end-of-input flag
\* of the stage is set and the returned count is the whole count of the
\* stage; when the window wraps and only its contiguous head is returned,
\* the end of input is not reported, and it is reported with the slice that
\* holds the last packets of the window.
C32_InputEndLast ==
    [][\A s \in Stages :
          WaitWorkReturns(s)
              => /\ ret'[s].input_end <=> (input_end[s] /\ ret'[s].cnt = pkt_cnt[s])
                 /\ (input_end[s] /\ ~ret'[s].timeout /\ ret'[s].cnt < pkt_cnt[s])
                       => /\ ~ret'[s].input_end
                          /\ pkt_first[s] + pkt_cnt[s] > BufCount
                          /\ ret'[s].cnt = BufCount - pkt_first[s]
                 /\ ret'[s].input_end
                       => ret'[s].first = pkt_first[s] /\ ret'[s].cnt = pkt_cnt[s]]_vars

\* A stage at the end of input whose window wraps was given the head of the
\* window without the end of input.
C32_Witness ==
    \E s \in Stages :
        /\ pc[s] = "ready"
        /\ input_end[s]
        /\ ~ret[s].input_end /\ ~ret[s].timeout
        /\ ret[s].first = pkt_first[s]
        /\ 0 < ret[s].cnt /\ ret[s].cnt < pkt_cnt[s]

----------------------------------------------------------------------------
\* Properties of the bitrate monitor, continued.

\* The step is a time check at a second boundary.
SecondBoundary ==
    \E e \in Elapsed :
        /\ e >= NanoSecPerSec
        /\ HandlePacketTimeout(e) \/ \E kind \in PacketKinds : ProcessPacket(kind, e)

\* The period holds a completed measurement.
Measured(p) == p.duration >= NanoSecPerSec

\* C33: start() begins a start-up of W second boundaries, at which no bitrate
\* is computed and no go-label set is added: at a boundary of the start-up
\* the index advances and the start-up ends when the index is back at 0; at
\* every later boundary the bitrate is computed, and every period of the
\* window other than the current one, whose duration the time check sets,
\* holds a completed measurement.
C33_Startup ==
    /\ [][(\E periodic \in PeriodicCommands : MonitorStart(periodic))
            => startup' /\ periods_index' = 0 /\ ~computation'.done]_vars
    /\ [][SecondBoundary =>
            IF startup
            THEN /\ ~computation'.done
                 /\ labels_next' \subseteq labels_next
                 /\ last_bitrate_status' = last_bitrate_status
                 /\ periods_index' = (periods_index + 1) % WindowSize
                 /\ startup' <=> periods_index + 1 < WindowSize
            ELSE /\ computation'.done
                 /\ ~startup'
                 /\ \A i \in 0 .. (WindowSize - 1) :
                       i # periods_index => Measured(periods[i])]_vars
    /\ [](\A i \in 0 .. (WindowSize - 1) :
            /\ (startup /\ i < periods_index) => Measured(periods[i])
            /\ (~startup /\ i # periods_index) => Measured(periods[i]))

\* The first computation after a restart of the plugin: the start-up is
\* over, the index has cycled and a bitrate was computed over measured
\* periods.
C33_Witness ==
    /\ ~startup
    /\ computation.done
    /\ periods_index = 1 % WindowSize
    /\ periodic_command = 2
    /\ \A i \in 0 .. (WindowSize - 1) : i # periods_index => Measured(periods[i])

\* C34: the status computed for a bitrate is LOWER exactly when the bitrate
\* is less than the minimum, GREATER exactly when it is greater than the
\* maximum and IN_RANGE exactly when it is in the range, bounds included,
\* whatever the previous status; the alarm command receives "lower",
\* "greater" or "normal" accordingly.
C34_Classification ==
    [][Compute =>
         /\ computation'.status = "LOWER" <=> computation'.bitrate < MinBitrate
         /\ computation'.status = "GREATER" <=> computation'.bitrate > MaxBitrate
         /\ computation'.status = "IN_RANGE" <=>
               (MinBitrate <= computation'.bitrate /\ computation'.bitrate <= MaxBitrate)
         /\ computation'.alarm_status = "lower" <=> computation'.status = "LOWER"
         /\ computation'.alarm_status = "greater" <=> computation'.status = "GREATER"
         /\ computation'.alarm_status = "normal" <=> computation'.status = "IN_RANGE"
         /\ computation'.bitrate = BitsPerSecond(TotalPackets, TotalNano \div 1000)
         /\ computation'.state_change <=> computation'.status # last_bitrate_status]_vars

\* A bitrate at the minimum was computed in the range while the previous
\* status was another one.
C34_Witness ==
    /\ computation.done
    /\ computation.bitrate = MinBitrate
    /\ computation.status = "IN_RANGE"
    /\ computation.alarm_status = "normal"
    /\ computation.state_change
    /\ labels_next = {"go_normal"}

\* C35: the assertion count <= _pkt_cnt of passPackets, which reads _pkt_cnt
\* without the mutex, holds whenever it is evaluated for a count up to the
\* count that the latest waitWork of the stage returned: between the return
\* of waitWork and passPackets the count of the stage is never less than the
\* returned one, because only passPackets of the stage itself decreases it,
\* by the count it passes; the other threads only add to it.
C35_AssertHolds ==
    /\ [][\A s \in Stages :
            pkt_cnt'[s] < pkt_cnt[s]
                => /\ pc[s] = "working" /\ pc'[s] # "working"
                   /\ pkt_cnt[s] - pkt_cnt'[s] <= ret[s].cnt]_vars
    /\ [](\A s \in Stages :
            pc[s] \in {"ready", "working"} =>
                \A count \in 0 .. ret[s].cnt : count <= pkt_cnt[s])

\* While a stage works on the slice waitWork returned, its predecessor has
\* added packets to its window, which does not wrap.
C35_Witness ==
    \E s \in Stages :
        /\ pc[s] = "working"
        /\ 0 < ret[s].cnt
        /\ ret[s].cnt < pkt_cnt[s]
        /\ pkt_first[s] + pkt_cnt[s] <= BufCount
        /\ pc[ringPrevious(s)] \in {"idle", "waiting"}

----------------------------------------------------------------------------
\* Properties of the LCN store, continued.

\* C36 as stated: getLCN returns the LCN of the first entry stored with the
\* three identifiers requested if there is one; otherwise the LCN of an entry
\* with the service id and the transport stream id requested that was stored
\* with the unspecified original network id 0xFFFF, if there is one.
C36_AsStated ==
    [][ \A srv_id \in ServiceIds : \A ts_id \in TsIds : \A onet_id \in ONetIds :
          GetLCN(srv_id, ts_id, onet_id) =>
              LET exact == {i \in Matching(srv_id, ts_id) : lcn_map[i].onet_id = onet_id}
                  unspecified == {i \in Matching(srv_id, ts_id) :
                                     lcn_map[i].onet_id = ONetUnspecified}
              IN  IF exact # {} THEN found'.lcn = lcn_map[First(exact)].lcn
                  ELSE unspecified # {} =>
                          \E i \in unspecified : found'.lcn = lcn_map[i].lcn ]_vars

\* getLCN with a specified original network id did not find the service
\* although the store has an entry of the service stored with the
\* unspecified original network id.
C36_Witness ==
    /\ found.onet_id = 1
    /\ found.lcn = LcnNotFound
    /\ \E i \in Matching(found.srv_id, found.ts_id) : lcn_map[i].onet_id = ONetUnspecified
    /\ \A i \in Matching(found.srv_id, found.ts_id) : lcn_map[i].onet_id # ONetPossible

----------------------------------------------------------------------------
\* Properties of the ring: wake-ups.

\* The wait condition of stage s, blocked in waitWork, is true.
WaitOver(s) == WorkOrEnd(s, min_req[s])

\* The step makes the wait condition of stage s true.
MadeTrue(s) ==
    pkt_cnt'[s] >= min_req[s] \/ input_end'[s] \/ tsp_aborting'[ringNext(s)]

\* C37: no wake-up is lost. The step that makes true the wait condition of a
\* stage blocked in waitWork (its count reaches the requested minimum, its
\* end of input is set, its successor aborts) notifies the stage in the same
\* step, so that no stage is blocked while its wait condition is true, and a
\* notified stage returns from waitWork, with an infinite packet timeout too.
C37_NoLostWakeup ==
    /\ [][\A s \in Stages :
            (pc[s] = "waiting" /\ ~WaitOver(s) /\ MadeTrue(s))
                => pc'[s] = "woken"]_vars
    /\ [](\A s \in Stages : pc[s] = "waiting" => ~WaitOver(s))
    /\ \A s \in Stages : (pc[s] = "woken" /\ WaitOver(s)) ~> (pc[s] = "ready")

\* A stage with an infinite packet timeout, blocked without packets, was
\* notified of the abort of its successor.
C37_Witness ==
    \E s \in Stages :
        /\ pc[s] = "woken"
        /\ tsp_timeout[s] = Infinite
        /\ tsp_aborting[ringNext(s)]
        /\ pkt_cnt[s] < min_req[s]
        /\ ~input_end[s]


\* waitWork of stage s returns in the step without timeout, with neither
\* the end of input nor an aborting successor.
PlainReturn(s) ==
    /\ WaitWorkReturns(s)
    /\ ~ret'[s].timeout
    /\ ~input_end[s]
    /\ ~tsp_aborting[ringNext(s)]

\* C38: a return of waitWork without timeout, while the end of input of the
\* stage is not set and its successor is not aborting, gives a count between
\* the requested minimum limited to the buffer size and the count of the
\* stage; every return, with timeout or not, gives at most the count of the
\* stage.
C38_CountBounds ==
    /\ [][\A s \in Stages : \A m \in MinArgs :
             (WaitWork(s, m) /\ PlainReturn(s))
                => Min(m, BufCount) <= ret'[s].cnt /\ ret'[s].cnt <= pkt_cnt[s]]_vars
    /\ [][\A s \in Stages :
             (pc[s] \in {"waiting", "woken"} /\ PlainReturn(s))
                => min_req[s] <= ret'[s].cnt /\ ret'[s].cnt <= pkt_cnt[s]]_vars
    /\ [][\A s \in Stages : WaitWorkReturns(s) => ret'[s].cnt <= pkt_cnt[s]]_vars

\* waitWork returned, without timeout, fewer packets than a wrapping window
\* holds, to a stage that had waited for them.
C38_Witness ==
    \E s \in Stages :
        /\ pc[s] = "ready"
        /\ ~ret[s].timeout /\ ~ret[s].input_end /\ ~input_end[s]
        /\ ~tsp_aborting[ringNext(s)]
        /\ ret[s].cnt > 0
        /\ ret[s].cnt < pkt_cnt[s]


----------------------------------------------------------------------------
\* Properties of the bitrate monitor with any accepted --time-interval.

\* C39, as stated: for every accepted --time-interval, after start() the
\* index is one of the periods, 0 <= index < number of periods, and no call
\* of processPacket or checkTime accesses a period out of the vector or
\* computes a remainder by zero.
C39_AsStated ==
    /\ periods_index \in DOMAIN periods
    /\ periods_index >= 0 /\ periods_index < Size(periods)
    /\ fault = {}

\* C39, what the code ensures: with a --time-interval of at least 1 the
\* index is one of the periods, and start, processPacket and checkTime
\* execute no undefined operation.
C39_IndexSafe ==
    /\ [](Size(periods) >= 1 => periods_index \in DOMAIN periods)
    /\ [][Size(periods') >= 1 => (fault' = fault /\ periods_index' \in DOMAIN periods')]_vars

\* With --time-interval 0 a time check computed a remainder by zero.
C39_Witness ==
    /\ Size(periods) = 0
    /\ "remainder_by_zero" \in fault
    /\ "out_of_bounds" \in fault


----------------------------------------------------------------------------
\* Properties of the LCN store and the service descriptions.

\* The entry of the store that updateService finds for the service i of the
\* list, 0 if none or if it does not search.
EntryOf(i, replace) ==
    IF UpdatedService(lcn_map, srv_list[i], replace).result
    THEN FindLCN(lcn_map, Only(srv_list[i].id), Only(srv_list[i].ts_id),
                 IF srv_list[i].onid # {} THEN Only(srv_list[i].onid) ELSE ONetUnspecified)
    ELSE 0

\* The first entry of the store that matches the description srv for
\* updateServices, 0 if none.
FirstMatching(srv) ==
    IF \E k \in 1 .. Len(lcn_map) : Matches(lcn_map[k], srv)
    THEN CHOOSE k \in 1 .. Len(lcn_map) :
            /\ Matches(lcn_map[k], srv)
            /\ \A j \in 1 .. (k - 1) : ~Matches(lcn_map[j], srv)
    ELSE 0

\* C40, as stated: updateService, like updateServices, sets the hidden flag
\* of the service to the negation of the visible flag of the stored LCN: a
\* service without hidden flag that both operations update from the same
\* entry gets the same hidden flag from both, and a visible LCN never marks
\* the service hidden.
C40_AsStated ==
    [][\A i \in 1 .. Len(srv_list) : \A replace \in BOOLEAN :
          (UpdateService(i, replace) /\ EntryOf(i, replace) # 0)
              => /\ srv_list'[i].hidden = {~lcn_map[EntryOf(i, replace)].visible}
                 /\ (srv_list[i].hidden = {}
                        /\ FirstMatching(srv_list[i]) = EntryOf(i, replace))
                       => srv_list'[i].hidden
                             = UpdatedServices(lcn_map, srv_list, replace, FALSE).list[i].hidden]_vars

\* C40, what the code does: updateService sets the hidden flag of the
\* service to the visible flag of the entry it finds, not negated, whatever
\* the flag was; updateServices sets the hidden flag of a service that has
\* none to the negation of the visible flag of the first entry that matches.
C40_Hidden ==
    /\ [][\A i \in 1 .. Len(srv_list) : \A replace \in BOOLEAN :
             (UpdateService(i, replace) /\ EntryOf(i, replace) # 0)
                 => srv_list'[i].hidden = {lcn_map[EntryOf(i, replace)].visible}]_vars
    /\ [][\A replace \in BOOLEAN : \A add \in BOOLEAN :
             UpdateServices(replace, add)
                 => \A i \in 1 .. Len(srv_list) :
                       srv_list'[i].hidden =
                           IF srv_list[i].hidden # {} \/ FirstMatching(srv_list[i]) = 0
                           THEN srv_list[i].hidden
                           ELSE {~lcn_map[FirstMatching(srv_list[i])].visible}]_vars

\* A service is marked hidden and has the LCN of the only entry of the
\* store, which is visible and has the identifiers of the service.
C40_Witness ==
    /\ Len(lcn_map) = 1 /\ lcn_map[1].visible
    /\ Len(srv_list) = 1
    /\ srv_list[1].hidden = {TRUE}
    /\ srv_list[1].lcn = {lcn_map[1].lcn}
    /\ srv_list[1].onid = {lcn_map[1].onet_id}
    /\ Matches(lcn_map[1], srv_list[1])

====
